---- MODULE Spec2Model ----
(***************************************************************************)
(* InterView: a read-only facade over a projection cache, a ledger mirror, *)
(* a rate-limited component poller, a storage-metadata index and a gated   *)
(* global ledger.  The model follows src/src/interview/sources.py (the     *)
(* sources) and src/src/interview/api.py (the public operations).          *)
(*                                                                         *)
(* Time is a discrete clock `now` counted in ticks; one tick is SecPerTick *)
(* seconds.  Every age is converted to seconds or milliseconds the way the *)
(* code converts it before it is compared with a configured duration.      *)
(***************************************************************************)
EXTENDS Integers, Sequences, FiniteSets, TLC

VARIABLES
    settings,        \* config.py Settings: fixed at process start (lru_cache)
    now,             \* datetime.utcnow(), in ticks
    status_cache,    \* ProjectionCache._status_cache: key -> (status, cached_at)
    receipt_headers, \* ProjectionCache._receipt_headers: key -> list of headers
    receipt_cache,   \* ProjectionCache._receipt_cache: key -> (receipt, cached_at)
    poll_cache,      \* ComponentPoller._cache: cache_key -> (data, cached_at)
    rate_limiter,    \* ComponentPoller._rate_limiter: component -> timestamps
    inflight,        \* the polls awaiting the component's answer (a bag)
    resp,            \* the response (or error) of the last finished handler
    called,          \* the downstream endpoints the last step sent a request to
    consulted,       \* the receipt sources the last step read, in call order
    backing,         \* the backing stores: endpoint -> version of its content
    tool_log,        \* the tool names checked so far, each with its outcome
    issued           \* history: the times a poll went out to the component

vars == <<settings, now, status_cache, receipt_headers, receipt_cache,
          poll_cache, rate_limiter, inflight, resp, called, consulted,
          backing, tool_log, issued>>

cacheVars == <<status_cache, receipt_headers, receipt_cache>>
pollerVars == <<poll_cache, rate_limiter, inflight, issued>>

-----------------------------------------------------------------------------
(* Bounds of the model *)

TicksPerMinute == 2      \* clock granularity: ticks in one minute
MaxTime == 3             \* the clock stops here (one source alone)
MaxTimeAll == 2          \* the clock stops here (the whole service)
MaxRate == 2             \* largest configured component poll rate limit
MaxInflight == 2         \* request slots that can await the component at once
MaxItems == 2            \* most items a downstream answer carries
MaxChecks == 2           \* most tool names checked in one run
MaxHeaders == 2          \* most headers cached for one lineage

(* Program constants *)

WindowSeconds == 60             \* timedelta(minutes=1)
QueueLimitCap == 50             \* min(limit, 50)
QueueLimitField == 50           \* QueueAsyncRequest.limit: ge=1, le=50
FieldLimitMax == 200            \* RequestControls.limit: ge=1, le=200
FieldWindowMax == 168           \* RequestControls.time_window_hours: le=168
MaxWindowHours == 168           \* max_time_window_hours
CostComponentPoll == 5
CostGlobalLedger == 100

SecPerTick == WindowSeconds \div TicksPerMinute

Tenants == {"t1", "t2"}
Lineages == {"L1"}
DataVals == {[version |-> "d1"], [version |-> "d2"]}
None == "None"

Min(a, b) == IF a <= b THEN a ELSE b
Max(a, b) == IF a >= b THEN a ELSE b

(* Python dicts as functions with a growing domain *)
EmptyDict == [k \in {} |-> None]
Put(d, k, v) == [x \in (DOMAIN d) \cup {k} |-> IF x = k THEN v ELSE d[x]]
Del(d, k) == [x \in (DOMAIN d) \ {k} |-> d[x]]

(* Bags of requests in flight: request -> number of copies *)
BagAdd(b, e) == Put(b, e, IF e \in DOMAIN b THEN b[e] + 1 ELSE 1)
BagRemove(b, e) == IF b[e] = 1 THEN Del(b, e) ELSE [b EXCEPT ![e] = b[e] - 1]
RECURSIVE BagSize(_)
BagSize(b) ==
    IF DOMAIN b = {} THEN 0
    ELSE LET e == CHOOSE x \in DOMAIN b : TRUE IN b[e] + BagSize(Del(b, e))

(* One call of a source method, with the arguments the handler passed *)
Read(source, args) == [source |-> source, args |-> args]

(* The backing stores behind the sources *)
Endpoints == {"ledger_mirror", "asyncgate", "depotgate", "global_ledger"}

(* every request sent as a POST *)
HttpMethod_Post(endpoint) == "POST"

(* client.get(...): the method of every request the sources send *)
HttpMethod(endpoint) == "GET"

(* the backing stores after the requests of one step: a GET leaves the    *)
(* store that receives it as it is, any other method gives it a new       *)
(* version                                                                *)
AfterRequests(endpoints) ==
    [e \in DOMAIN backing |->
        IF e \in endpoints /\ HttpMethod(e) # "GET" THEN backing[e] + 1
        ELSE backing[e]]

(* str() of a bool inside an f-string *)
BoolStr(b) == IF b THEN "True" ELSE "False"

-----------------------------------------------------------------------------
(* Responses *)

(* `via` names the branch of the handler that produced the outcome; code 0  *)
(* is a step that has not answered the caller (a call in flight, a clock    *)
(* tick, a cancelled request).                                              *)
Outcome(op, via, code, err, source, age, cost, truncated, req, body) ==
    [op |-> op, via |-> via, code |-> code, err |-> err, source |-> source,
     age_ms |-> age, cost |-> cost, truncated |-> truncated, req |-> req,
     body |-> body]

NoBody == [kind |-> "none"]
NoReq == [kind |-> "none"]

NoResp(op, via, req) ==
    Outcome(op, via, 0, None, None, 0, 0, FALSE, req, NoBody)

Ok(op, via, source, age, cost, truncated, req, body) ==
    Outcome(op, via, 200, None, source, age, cost, truncated, req, body)

HttpError(op, via, code, err, req) ==
    Outcome(op, via, code, err, None, 0, 0, FALSE, req, NoBody)

-----------------------------------------------------------------------------
(* Settings *)

SettingsSpace ==
    [allow_global_ledger : BOOLEAN,
     global_ledger_url : BOOLEAN,
     ledger_mirror_url : BOOLEAN,
     asyncgate_url : BOOLEAN,
     depotgate_url : BOOLEAN,
     component_poll_rate_limit_per_minute : 1..MaxRate,
     component_poll_cache_seconds : {2 * SecPerTick},
     projection_cache_ttl_seconds : {SecPerTick, 2 * SecPerTick},
     max_limit : 1..MaxItems]

-----------------------------------------------------------------------------
(* The clock *)

Advance(limit) ==
    /\ now < limit
    /\ now' = now + 1
    /\ resp' = NoResp("tick", "tick", NoReq)
    /\ called' = {}
    /\ backing' = AfterRequests(called')
    /\ consulted' = <<>>
    /\ UNCHANGED <<tool_log, settings, cacheVars, pollerVars>>

Tick == Advance(MaxTime)
TickAll == Advance(MaxTimeAll)

-----------------------------------------------------------------------------
(* ComponentPoller *)

HealthKey(r) == "asyncgate:health:" \o r.tenant_id \o ":" \o BoolStr(r.verbose)
QueueKey(r) ==
    "asyncgate:queue:" \o r.tenant_id \o ":" \o r.queue_id \o ":"
        \o ToString(r.limit) \o ":" \o BoolStr(r.include_examples)

(* int((utcnow() - cached_at).total_seconds() * 1000) *)
AgeMs(cached_at) == ((now - cached_at) * SecPerTick) * 1000

(* _check_rate_limit: the list before pruning *)
RateList(component) ==
    IF component \in DOMAIN rate_limiter THEN rate_limiter[component] ELSE <<>>

(* pruning that keeps a timestamp that is exactly one window old *)
Pruned_Inclusive(component) ==
    SelectSeq(RateList(component),
              LAMBDA t : (now - t) * SecPerTick <= WindowSeconds)

(* _check_rate_limit: the timestamps still inside the window *)
Pruned(component) ==
    SelectSeq(RateList(component),
              LAMBDA t : (now - t) * SecPerTick < WindowSeconds)

(* the limit test off by one: rejects only above the ceiling *)
RateLimitAdmits_OffByOne(component) ==
    ~(Len(Pruned(component)) > settings.component_poll_rate_limit_per_minute)

(* _check_rate_limit: its return value *)
RateLimitAdmits(component) ==
    ~(Len(Pruned(component)) >= settings.component_poll_rate_limit_per_minute)

(* the limiter written back from a list read before other requests       *)
(* recorded their timestamps                                              *)
RateLimiterAfter_StaleSnapshot(component) ==
    Put(rate_limiter, component,
        IF RateLimitAdmits(component) THEN <<now>> ELSE Pruned(component))

(* a limiter that records the time of a rejected call as well *)
RateLimiterAfter_RecordsRejected(component) ==
    Put(rate_limiter, component, Append(Pruned(component), now))

(* _check_rate_limit: the limiter it leaves behind *)
RateLimiterAfter(component) ==
    Put(rate_limiter, component,
        IF RateLimitAdmits(component)
        THEN Append(Pruned(component), now)
        ELSE Pruned(component))

(* the freshness test accepting an entry exactly as old as the duration *)
CachedFresh_Inclusive(key) ==
    /\ key \in DOMAIN poll_cache
    /\ AgeMs(poll_cache[key].cached_at)
          <= settings.component_poll_cache_seconds * 1000

(* _get_cached: a fresh entry exists *)
CachedFresh(key) ==
    /\ key \in DOMAIN poll_cache
    /\ AgeMs(poll_cache[key].cached_at)
          < settings.component_poll_cache_seconds * 1000

(* _get_cached: the cache it leaves behind (an expired entry is deleted) *)
CacheAfterGet(key) ==
    IF key \in DOMAIN poll_cache /\ ~CachedFresh(key)
    THEN Del(poll_cache, key)
    ELSE poll_cache

(* _set_cache *)
SetCache(key, data) == Put(poll_cache, key, [data |-> data, cached_at |-> now])

(* queue_async_interview: limit = min(request.limit, 50) *)
QueueLimit(r) == Min(r.limit, QueueLimitCap)

(* data.get("queue_depth", 0) *)
QueueDepth(data) ==
    IF "queue_depth" \in DOMAIN data THEN data.queue_depth ELSE 0

(* every item header the component returned, without the slice *)
QueueItems_Unsliced(r, data) ==
    IF r.include_examples /\ "items" \in DOMAIN data THEN data.items ELSE <<>>

(* queue_async_interview: data["items"][:limit] when examples are asked for *)
QueueItems(r, data) ==
    IF r.include_examples /\ "items" \in DOMAIN data
    THEN SubSeq(data.items, 1, Min(Len(data.items), QueueLimit(r)))
    ELSE <<>>

(* a component poll billed like a cache read *)
PollAnswer_CheapPoll(op, via, req, data, age) ==
    IF op = "health"
    THEN Ok(op, via, "component_poll", age, 1, FALSE, req,
            [reachable |-> TRUE, data |-> data])
    ELSE Ok(op, via, "component_poll", age, 1,
            Len(QueueItems(req, data)) >= QueueLimit(req), req,
            [queue_depth |-> QueueDepth(data),
             items |-> QueueItems(req, data)])

(* api.py: the handler's answer for a poll result (data, age_ms) *)
PollAnswer(op, via, req, data, age) ==
    IF op = "health"
    THEN Ok(op, via, "component_poll", age, CostComponentPoll, FALSE, req,
            [reachable |-> TRUE, data |-> data])
    ELSE Ok(op, via, "component_poll", age, CostComponentPoll,
            Len(QueueItems(req, data)) >= QueueLimit(req), req,
            [queue_depth |-> QueueDepth(data),
             items |-> QueueItems(req, data)])

(* the unavailable component surfaced to the caller as an error *)
PollDegraded_Raises(op, via, req) ==
    HttpError(op, via, 503, "SourceUnavailableError", req)

(* api.py: except SourceUnavailableError -> the degraded answer *)
PollDegraded(op, via, req) ==
    IF op = "health"
    THEN Ok(op, via, "component_poll", 0, 1, FALSE, req,
            [reachable |-> FALSE])
    ELSE Ok(op, via, "component_poll", 0, 1, FALSE, req,
            [queue_depth |-> 0, items |-> <<>>])

(* the rate-limit error caught by the SourceUnavailable handler *)
PollRateLimited_Degraded(op, req) == PollDegraded(op, "rate_limited", req)

(* api.py: except DataSourceError -> HTTP 429 *)
PollRateLimited(op, req) ==
    HttpError(op, "rate_limited", 429, "DataSourceError", req)

(* the cached answer counted against the rate budget *)
PollHit_ConsumesSlot(op, key, req) ==
    /\ resp' = PollAnswer(op, "cache_hit", req, poll_cache[key].data,
                          AgeMs(poll_cache[key].cached_at))
    /\ rate_limiter' = RateLimiterAfter("asyncgate")
    /\ called' = {}
    /\ backing' = AfterRequests(called')
    /\ consulted' = <<>>
    /\ UNCHANGED <<poll_cache, inflight, issued>>

(* poll_asyncgate_*: `if cached: return cached`, answered by the handler *)
PollHit(op, key, req) ==
    /\ resp' = PollAnswer(op, "cache_hit", req, poll_cache[key].data,
                          AgeMs(poll_cache[key].cached_at))
    /\ called' = {}
    /\ backing' = AfterRequests(called')
    /\ consulted' = <<>>
    /\ UNCHANGED <<poll_cache, rate_limiter, inflight, issued>>

(* a rate budget kept per tenant *)
LimiterComponent_PerTenant(op, req) == "asyncgate:" \o req.tenant_id

(* the component whose rate budget a poll draws on:                        *)
(* self._check_rate_limit("asyncgate") in both poll methods                *)
LimiterComponent(op, req) == "asyncgate"

(* the rate limiter consulted before the endpoint's configuration *)
PollMiss_LimiterBeforeUrl(op, key, req, params) ==
    /\ poll_cache' = CacheAfterGet(key)
    /\ rate_limiter' = RateLimiterAfter(LimiterComponent(op, req))
    /\ IF ~RateLimitAdmits(LimiterComponent(op, req))
       THEN /\ resp' = PollRateLimited(op, req)
            /\ called' = {}
            /\ backing' = AfterRequests(called')
            /\ consulted' = <<>>
            /\ UNCHANGED <<inflight, issued>>
       ELSE IF ~settings.asyncgate_url
       THEN /\ resp' = PollDegraded(op, "unconfigured", req)
            /\ called' = {}
            /\ backing' = AfterRequests(called')
            /\ consulted' = <<>>
            /\ UNCHANGED <<inflight, issued>>
       ELSE /\ BagSize(inflight) < MaxInflight
            /\ inflight' = BagAdd(inflight,
                   [op |-> op, key |-> key, req |-> req])
            /\ resp' = NoResp(op, "issued", req)
            /\ called' = {"asyncgate"}
            /\ backing' = AfterRequests(called')
            /\ consulted' = <<Read("component_poll", params)>>
            /\ issued' = Append(issued, now)

(* poll_asyncgate_*: after a cache miss, up to the await of the network    *)
(* call; the handler turns the two errors into its answers                 *)
PollMiss(op, key, req, params) ==
    /\ poll_cache' = CacheAfterGet(key)
    /\ IF ~settings.asyncgate_url
       THEN /\ resp' = PollDegraded(op, "unconfigured", req)
            /\ called' = {}
            /\ backing' = AfterRequests(called')
            /\ consulted' = <<>>
            /\ UNCHANGED <<rate_limiter, inflight, issued>>
       ELSE /\ rate_limiter' = RateLimiterAfter(LimiterComponent(op, req))
            /\ IF ~RateLimitAdmits(LimiterComponent(op, req))
               THEN /\ resp' = PollRateLimited(op, req)
                    /\ called' = {}
                    /\ backing' = AfterRequests(called')
                    /\ consulted' = <<>>
                    /\ UNCHANGED <<inflight, issued>>
               ELSE /\ BagSize(inflight) < MaxInflight
                    /\ inflight' = BagAdd(inflight,
                           [op |-> op, key |-> key, req |-> req])
                    /\ resp' = NoResp(op, "issued", req)
                    /\ called' = {"asyncgate"}
                    /\ backing' = AfterRequests(called')
                    /\ consulted' = <<Read("component_poll", params)>>
                    /\ issued' = Append(issued, now)

(* poll_asyncgate_health / poll_asyncgate_queue up to the await of the     *)
(* network call, inside health_async_interview / queue_async_interview     *)
PollStart(op, key, req, params) ==
    /\ IF CachedFresh(key) THEN PollHit(op, key, req)
                           ELSE PollMiss(op, key, req, params)
    /\ UNCHANGED <<tool_log, settings, now, cacheVars>>

(* health_async_interview up to the await *)
health_start(r) ==
    PollStart("health", HealthKey(r), r,
              [tenant_id |-> r.tenant_id, verbose |-> r.verbose])

(* QueueAsyncRequest: the bounds pydantic enforces on limit *)
ValidQueueRequest(r) == r.limit >= 1 /\ r.limit <= QueueLimitField

(* poll_asyncgate_queue: the query parameters of the request it sends *)
QueueParams(r) ==
    [tenant_id |-> r.tenant_id, queue_id |-> r.queue_id,
     limit |-> Min(QueueLimit(r), QueueLimitCap),
     include_examples |-> r.include_examples]

(* queue_async_interview up to the await *)
queue_start(r) ==
    IF ~ValidQueueRequest(r)
    THEN /\ resp' = HttpError("queue", "validation", 422, "ValidationError", r)
         /\ called' = {}
         /\ backing' = AfterRequests(called')
         /\ consulted' = <<>>
         /\ UNCHANGED <<tool_log, settings, now, cacheVars, pollerVars>>
    ELSE PollStart("queue", QueueKey([r EXCEPT !.limit = QueueLimit(r)]), r,
                   QueueParams(r))

(* a completed poll that leaves an entry already cached under its key *)
poll_ok_KeepsExisting(p, d) ==
    /\ p \in DOMAIN inflight
    /\ poll_cache' = IF p.key \in DOMAIN poll_cache THEN poll_cache
                     ELSE SetCache(p.key, d)
    /\ resp' = PollAnswer(p.op, "ok", p.req, d, 0)
    /\ inflight' = BagRemove(inflight, p)
    /\ called' = {}
    /\ backing' = AfterRequests(called')
    /\ consulted' = <<>>
    /\ UNCHANGED <<tool_log, settings, now, cacheVars, rate_limiter, issued>>

(* The component answered: raise_for_status passed, the result is cached *)
poll_ok(p, d) ==
    /\ p \in DOMAIN inflight
    /\ poll_cache' = SetCache(p.key, d)
    /\ resp' = PollAnswer(p.op, "ok", p.req, d, 0)
    /\ inflight' = BagRemove(inflight, p)
    /\ called' = {}
    /\ backing' = AfterRequests(called')
    /\ consulted' = <<>>
    /\ UNCHANGED <<tool_log, settings, now, cacheVars, rate_limiter, issued>>

(* a failed poll caching its failure *)
poll_fail_WritesCache(p) ==
    /\ p \in DOMAIN inflight
    /\ resp' = PollDegraded(p.op, "timeout", p.req)
    /\ poll_cache' = SetCache(p.key, [error |-> "timeout"])
    /\ inflight' = BagRemove(inflight, p)
    /\ called' = {}
    /\ backing' = AfterRequests(called')
    /\ consulted' = <<>>
    /\ UNCHANGED <<tool_log, settings, now, cacheVars, rate_limiter, issued>>

(* a failed poll sent to the component a second time *)
poll_fail_Retries(p) ==
    /\ p \in DOMAIN inflight
    /\ resp' = NoResp(p.op, "retry", p.req)
    /\ issued' = Append(issued, now)
    /\ called' = {"asyncgate"}
    /\ backing' = AfterRequests(called')
    /\ consulted' = <<>>
    /\ UNCHANGED <<tool_log, settings, now, cacheVars, poll_cache, rate_limiter,
                   inflight>>

(* httpx.TimeoutException or another httpx.HTTPError -> SourceUnavailable *)
poll_fail(p) ==
    /\ p \in DOMAIN inflight
    /\ \E via \in {"timeout", "http_error"} :
         resp' = PollDegraded(p.op, via, p.req)
    /\ inflight' = BagRemove(inflight, p)
    /\ called' = {}
    /\ backing' = AfterRequests(called')
    /\ consulted' = <<>>
    /\ UNCHANGED <<tool_log, settings, now, cacheVars, poll_cache, rate_limiter, issued>>

(* The caller went away: the awaiting coroutine is cancelled *)
poll_cancel(p) ==
    /\ p \in DOMAIN inflight
    /\ resp' = NoResp(p.op, "cancelled", p.req)
    /\ inflight' = BagRemove(inflight, p)
    /\ called' = {}
    /\ backing' = AfterRequests(called')
    /\ consulted' = <<>>
    /\ UNCHANGED <<tool_log, settings, now, cacheVars, poll_cache, rate_limiter, issued>>

-----------------------------------------------------------------------------
(* ProjectionCache *)

(* An optional datetime is <<>> (None) or <<t>> *)
Absent == <<>>
Some(t) == <<t>>

(* Python truthiness of an optional string *)
Truthy(x) == x # None /\ x # ""

StatusKey(tenant_id, root_task_id) == <<tenant_id, root_task_id>>
HeadersKey(tenant_id, root_task_id) == tenant_id \o ":" \o root_task_id
ReceiptKey(tenant_id, receipt_id) == tenant_id \o ":" \o receipt_id

(* _cache_age_ms *)
CacheAgeMs(cached_at) == ((now - cached_at) * SecPerTick) * 1000

(* the TTL test accepting an entry that is exactly TTL old *)
StatusFresh_Inclusive(key) ==
    /\ key \in DOMAIN status_cache
    /\ CacheAgeMs(status_cache[key].cached_at)
          <= settings.projection_cache_ttl_seconds * 1000

(* get_status: the entry exists and is younger than the TTL *)
StatusFresh(key) ==
    /\ key \in DOMAIN status_cache
    /\ CacheAgeMs(status_cache[key].cached_at)
          < settings.projection_cache_ttl_seconds * 1000

(* get_status: the (status, age_ms) it returns *)
GetStatus(key) ==
    IF StatusFresh(key)
    THEN [hit |-> TRUE, status |-> status_cache[key].status,
          age_ms |-> CacheAgeMs(status_cache[key].cached_at)]
    ELSE [hit |-> FALSE, age_ms |-> 0]

(* get_status: the cache it leaves behind (an expired entry is deleted) *)
StatusCacheAfterGet(key) ==
    IF key \in DOMAIN status_cache /\ ~StatusFresh(key)
    THEN Del(status_cache, key)
    ELSE status_cache

(* cache_status *)
CacheStatus(status) ==
    Put(status_cache, StatusKey(status.tenant_id, status.root_task_id),
        [status |-> status, cached_at |-> now])

(* ProjectionCache.get_receipt: the (receipt, age_ms) it returns *)
GetReceipt(key) ==
    IF key \in DOMAIN receipt_cache
    THEN [hit |-> TRUE, receipt |-> receipt_cache[key].receipt,
          age_ms |-> CacheAgeMs(receipt_cache[key].cached_at)]
    ELSE [hit |-> FALSE, age_ms |-> 0]

(* cache_receipt *)
CacheReceipt(receipt) ==
    Put(receipt_cache, ReceiptKey(receipt.tenant_id, receipt.receipt_id),
        [receipt |-> receipt, cached_at |-> now])

(* datetime.min, the sort key of a header without created_at *)
DatetimeMin == 0 - 1000000

(* h.created_at or datetime.min *)
SortKey(h) == IF h.created_at = Absent THEN DatetimeMin ELSE h.created_at[1]

(* sorted(headers, key=..., reverse=True): stable, equal keys keep their order *)
RECURSIVE InsertDesc(_, _)
InsertDesc(sorted, h) ==
    IF sorted = <<>> THEN <<h>>
    ELSE IF SortKey(Head(sorted)) >= SortKey(h)
         THEN <<Head(sorted)>> \o InsertDesc(Tail(sorted), h)
         ELSE <<h>> \o sorted

RECURSIVE SortDesc(_)
SortDesc(headers) ==
    IF headers = <<>> THEN <<>>
    ELSE InsertDesc(SortDesc(SubSeq(headers, 1, Len(headers) - 1)),
                    headers[Len(headers)])

(* headers[:limit]: a negative limit counts from the end of the list *)
SliceTo(seq, n) ==
    IF n >= 0 THEN SubSeq(seq, 1, Min(Len(seq), n))
    ELSE SubSeq(seq, 1, Max(Len(seq) + n, 0))

(* the search without the sort: the matching headers in cached order *)
CacheSearch_Unsorted(tenant_id, root_task_id, phase, recipient_ai, since, limit) ==
    LET key == HeadersKey(tenant_id, root_task_id)
        all == IF key \in DOMAIN receipt_headers
               THEN receipt_headers[key] ELSE <<>>
        f1 == IF Truthy(phase)
              THEN SelectSeq(all, LAMBDA h : h.phase = phase) ELSE all
        f2 == IF Truthy(recipient_ai)
              THEN SelectSeq(f1, LAMBDA h : h.recipient_ai = recipient_ai)
              ELSE f1
        f3 == IF since # Absent
              THEN SelectSeq(f2, LAMBDA h :
                       h.created_at # Absent /\ h.created_at[1] >= since[1])
              ELSE f2
    IN  SliceTo(f3, limit)

(* ProjectionCache.search_receipts: the headers it returns *)
CacheSearch(tenant_id, root_task_id, phase, recipient_ai, since, limit) ==
    LET key == HeadersKey(tenant_id, root_task_id)
        all == IF key \in DOMAIN receipt_headers
               THEN receipt_headers[key] ELSE <<>>
        f1 == IF Truthy(phase)
              THEN SelectSeq(all, LAMBDA h : h.phase = phase) ELSE all
        f2 == IF Truthy(recipient_ai)
              THEN SelectSeq(f1, LAMBDA h : h.recipient_ai = recipient_ai)
              ELSE f1
        f3 == IF since # Absent
              THEN SelectSeq(f2, LAMBDA h :
                       h.created_at # Absent /\ h.created_at[1] >= since[1])
              ELSE f2
        ordered == SortDesc(f3)
    IN  SliceTo(ordered, limit)

(* ProjectionCache.search_receipts: the age it reports *)
CacheSearchAgeMs(headers) == IF headers # <<>> THEN 1000 ELSE 0

(* A caller of the cache searches the headers of a lineage *)
search_receipts(r) ==
    LET found == CacheSearch(r.tenant_id, r.root_task_id, r.phase,
                             r.recipient_ai, r.since, r.limit)
    IN  /\ resp' = Outcome("search_receipts", "searched", 0, None,
                           "projection_cache", CacheSearchAgeMs(found), 0,
                           FALSE, r, [receipts |-> found])
        /\ called' = {}
        /\ backing' = AfterRequests(called')
        /\ consulted' = <<>>
        /\ UNCHANGED <<tool_log, settings, now, cacheVars, pollerVars>>

(* A caller of the cache stores a derived status *)
cache_status(st) ==
    /\ status_cache' = CacheStatus(st)
    /\ resp' = NoResp("cache_status", "write", st)
    /\ called' = {}
    /\ backing' = AfterRequests(called')
    /\ consulted' = <<>>
    /\ UNCHANGED <<tool_log, settings, now, receipt_headers, receipt_cache, pollerVars>>

(* A caller of the cache reads a status *)
get_status(tenant_id, root_task_id) ==
    LET key == StatusKey(tenant_id, root_task_id)
        got == GetStatus(key)
        r == [tenant_id |-> tenant_id, root_task_id |-> root_task_id]
    IN  /\ status_cache' = StatusCacheAfterGet(key)
        /\ resp' = IF got.hit
                   THEN Outcome("get_status", "hit", 0, None,
                                "projection_cache", got.age_ms, 0, FALSE, r,
                                got.status)
                   ELSE Outcome("get_status", "miss", 0, None,
                                "projection_cache", got.age_ms, 0, FALSE, r,
                                NoBody)
        /\ called' = {}
        /\ backing' = AfterRequests(called')
        /\ consulted' = <<Read("projection_cache", r)>>
        /\ UNCHANGED <<tool_log, settings, now, receipt_headers, receipt_cache,
                       pollerVars>>

-----------------------------------------------------------------------------
(* The receipt operations of api.py.  `reply` is what the downstream       *)
(* endpoint would answer if the handler asked it.                          *)

TicksPerHour == 60 * TicksPerMinute

(* RequestControls: the bounds pydantic enforces before a handler runs *)
ValidControls(r) ==
    /\ r.limit >= 1 /\ r.limit <= FieldLimitMax
    /\ r.time_window_hours >= 1 /\ r.time_window_hours <= FieldWindowMax

(* a rejected request body: FastAPI answers 422, the handler never runs *)
Unprocessable(op, r) == HttpError(op, "validation", 422, "ValidationError", r)

(* the limit handed on without the configured maximum *)
ClampLimit_Unclamped(limit) == limit

(* limit = min(controls.limit, settings.max_limit) *)
ClampLimit(limit) == Min(limit, settings.max_limit)

(* the flag set only when more items came back than were asked for *)
Truncated_Strict(items, limit) == Len(items) > limit

(* truncated = len(receipts) >= limit *)
Truncated(items, limit) == Len(items) >= limit

(* since = controls.since, or now - time_window_hours when it is not given *)
ResolveSince(r) ==
    IF r.since # Absent THEN r.since
    ELSE Some(now - r.time_window_hours * TicksPerHour)

(* the keyword arguments both receipt stores get from a search *)
SearchArgs(r, since, limit) ==
    [tenant_id |-> r.tenant_id, root_task_id |-> r.root_task_id,
     phase |-> r.phase, recipient_ai |-> r.recipient_ai,
     since |-> since, limit |-> limit]

(* a status handler that caches the unknown status it falls back to *)
status_receipts_interview_CachesUnknown(r, held) ==
    LET root == IF Truthy(r.root_task_id) THEN r.root_task_id ELSE r.task_id
        key == StatusKey(r.tenant_id, root)
        got == GetStatus(key)
        unknown == [tenant_id |-> r.tenant_id, root_task_id |-> root,
                    state |-> "unknown"]
    IN  /\ IF ~Truthy(root)
           THEN /\ resp' = HttpError("status", "validation", 400,
                                     "ValidationError", r)
                /\ consulted' = <<>>
                /\ UNCHANGED status_cache
           ELSE /\ status_cache' =
                     IF got.hit THEN status_cache ELSE CacheStatus(unknown)
                /\ consulted' =
                     <<Read("projection_cache",
                            [tenant_id |-> r.tenant_id, root_task_id |-> root])>>
                /\ resp' =
                     IF got.hit
                     THEN Ok("status", "cache_hit", "projection_cache",
                             got.age_ms, 1, FALSE, r, got.status)
                     ELSE Ok("status", "cache_miss", "projection_cache",
                             0, 1, FALSE, r, unknown)
        /\ called' = {}
        /\ backing' = AfterRequests(called')
        /\ UNCHANGED <<tool_log, settings, now, receipt_headers, receipt_cache,
                       pollerVars>>

(* status_receipts_interview: `held` is the list of headers the ledger     *)
(* mirror holds for the lineage; the handler never asks for it            *)
status_receipts_interview(r, held) ==
    LET root == IF Truthy(r.root_task_id) THEN r.root_task_id ELSE r.task_id
        key == StatusKey(r.tenant_id, root)
        got == GetStatus(key)
    IN  /\ IF ~Truthy(root)
           THEN /\ resp' = HttpError("status", "validation", 400,
                                     "ValidationError", r)
                /\ consulted' = <<>>
                /\ UNCHANGED status_cache
           ELSE /\ status_cache' = StatusCacheAfterGet(key)
                /\ consulted' =
                     <<Read("projection_cache",
                            [tenant_id |-> r.tenant_id, root_task_id |-> root])>>
                /\ resp' =
                     IF got.hit
                     THEN Ok("status", "cache_hit", "projection_cache",
                             got.age_ms, 1, FALSE, r, got.status)
                     ELSE Ok("status", "cache_miss", "projection_cache",
                             0, 1, FALSE, r,
                             [tenant_id |-> r.tenant_id, root_task_id |-> root,
                              state |-> "unknown"])
        /\ called' = {}
        /\ backing' = AfterRequests(called')
        /\ UNCHANGED <<tool_log, settings, now, receipt_headers, receipt_cache,
                       pollerVars>>

(* the unavailable source answered with an empty success *)
Unavailable_EmptyOk(op, via, r) ==
    Ok(op, via, "storage_metadata", 0, 1, FALSE, r, [items |-> <<>>])

(* except SourceUnavailableError: raise HTTPException(status_code=503) *)
Unavailable(op, via, r) ==
    HttpError(op, via, 503, "SourceUnavailableError", r)

(* max(1, len(items) // 10) *)
CostOf(items) == Max(1, Len(items) \div 10)

(* search_receipts_interview storing the mirror's headers in the cache *)
search_receipts_interview_WritesBack(r, reply) ==
    LET limit == ClampLimit(r.limit)
        since == ResolveSince(r)
        args == SearchArgs(r, since, limit)
        cached == CacheSearch(r.tenant_id, r.root_task_id, r.phase,
                              r.recipient_ai, since, limit)
        fromCache(via) ==
            Ok("search", via, "projection_cache", CacheSearchAgeMs(cached),
               CostOf(cached), Truncated(cached, limit), r,
               [items |-> cached])
    IN  /\ IF ~ValidControls(r)
           THEN /\ resp' = Unprocessable("search", r)
                /\ called' = {}
                /\ backing' = AfterRequests(called')
                /\ consulted' = <<>>
                /\ UNCHANGED receipt_headers
           ELSE IF cached = <<>>
                   /\ r.freshness \in {"prefer_fresh", "force_fresh"}
           THEN /\ consulted' = <<Read("projection_cache", args),
                                  Read("ledger_mirror", args)>>
                /\ IF ~settings.ledger_mirror_url
                   THEN /\ resp' = fromCache("mirror_unconfigured")
                        /\ called' = {}
                        /\ backing' = AfterRequests(called')
                        /\ UNCHANGED receipt_headers
                   ELSE /\ called' = {"ledger_mirror"}
                        /\ backing' = AfterRequests(called')
                        /\ IF reply.kind = "http_error"
                           THEN /\ resp' = fromCache("mirror_failed")
                                /\ UNCHANGED receipt_headers
                           ELSE /\ resp' =
                                     Ok("search", "mirror", "ledger_mirror", 0,
                                        CostOf(reply.items),
                                        Truncated(reply.items, limit), r,
                                        [items |-> reply.items])
                                /\ receipt_headers' =
                                     Put(receipt_headers,
                                         HeadersKey(r.tenant_id, r.root_task_id),
                                         reply.items)
           ELSE /\ resp' = fromCache("cache")
                /\ called' = {}
                /\ backing' = AfterRequests(called')
                /\ consulted' = <<Read("projection_cache", args)>>
                /\ UNCHANGED receipt_headers
        /\ UNCHANGED <<tool_log, settings, now, status_cache, receipt_cache, pollerVars>>

(* search_receipts_interview: `reply` is what the mirror would answer *)
search_receipts_interview(r, reply) ==
    LET limit == ClampLimit(r.limit)
        since == ResolveSince(r)
        args == SearchArgs(r, since, limit)
        cached == CacheSearch(r.tenant_id, r.root_task_id, r.phase,
                              r.recipient_ai, since, limit)
        fromCache(via) ==
            Ok("search", via, "projection_cache", CacheSearchAgeMs(cached),
               CostOf(cached), Truncated(cached, limit), r,
               [items |-> cached])
    IN  /\ IF ~ValidControls(r)
           THEN /\ resp' = Unprocessable("search", r)
                /\ called' = {}
                /\ backing' = AfterRequests(called')
                /\ consulted' = <<>>
           ELSE IF cached = <<>>
                   /\ r.freshness \in {"prefer_fresh", "force_fresh"}
           THEN /\ consulted' = <<Read("projection_cache", args),
                                  Read("ledger_mirror", args)>>
                /\ IF ~settings.ledger_mirror_url
                   THEN /\ resp' = fromCache("mirror_unconfigured")
                        /\ called' = {}
                        /\ backing' = AfterRequests(called')
                   ELSE /\ called' = {"ledger_mirror"}
                        /\ backing' = AfterRequests(called')
                        /\ resp' =
                             IF reply.kind = "http_error"
                             THEN fromCache("mirror_failed")
                             ELSE Ok("search", "mirror", "ledger_mirror", 0,
                                     CostOf(reply.items),
                                     Truncated(reply.items, limit), r,
                                     [items |-> reply.items])
           ELSE /\ resp' = fromCache("cache")
                /\ called' = {}
                /\ backing' = AfterRequests(called')
                /\ consulted' = <<Read("projection_cache", args)>>
        /\ UNCHANGED <<tool_log, settings, now, cacheVars, pollerVars>>

(* the arguments of both get_receipt methods *)
GetArgs(r) == [tenant_id |-> r.tenant_id, receipt_id |-> r.receipt_id]

(* the unknown receipt reported as an error *)
GetNotFound_Raises(r, via) == HttpError("get", via, 404, "NotFound", r)

(* get_receipt_interview: the negative result, found=False *)
GetNotFound(r, via) ==
    Ok("get", via, "projection_cache", 0, 1, FALSE, r, [found |-> FALSE])

(* the mirror's receipt returned under the cache's name *)
GetFromMirror_CacheAttributed(r, receipt) ==
    Ok("get", "mirror", "projection_cache", 0, 2, FALSE, r,
       [found |-> TRUE, receipt |-> receipt])

(* get_receipt_interview: the response for a receipt the mirror returned *)
GetFromMirror(r, receipt) ==
    Ok("get", "mirror", "ledger_mirror", 0, 2, FALSE, r,
       [found |-> TRUE, receipt |-> receipt])

(* get_receipt_interview falling through to the global ledger when the    *)
(* mirror cannot answer                                                    *)
get_receipt_interview_GlobalFallback(r, reply) ==
    LET got == GetReceipt(ReceiptKey(r.tenant_id, r.receipt_id))
    IN  /\ IF got.hit
           THEN /\ resp' = Ok("get", "cache_hit", "projection_cache",
                              got.age_ms, 1, FALSE, r,
                              [found |-> TRUE, receipt |-> got.receipt])
                /\ called' = {}
                /\ backing' = AfterRequests(called')
                /\ consulted' = <<Read("projection_cache", GetArgs(r))>>
                /\ UNCHANGED receipt_cache
           ELSE /\ called' = IF reply.kind = "ok" THEN {"ledger_mirror"}
                             ELSE {"ledger_mirror", "global_ledger"}
                /\ backing' = AfterRequests(called')
                /\ consulted' = <<Read("projection_cache", GetArgs(r)),
                                  Read("ledger_mirror", GetArgs(r))>>
                /\ IF reply.kind = "ok"
                   THEN /\ receipt_cache' = CacheReceipt(reply.receipt)
                        /\ resp' = Ok("get", "mirror", "ledger_mirror", 0, 2,
                                      FALSE, r,
                                      [found |-> TRUE, receipt |-> reply.receipt])
                   ELSE /\ resp' = Ok("get", "mirror_failed",
                                      "projection_cache", 0, 1, FALSE, r,
                                      [found |-> FALSE])
                        /\ UNCHANGED receipt_cache
        /\ UNCHANGED <<tool_log, settings, now, status_cache, receipt_headers,
                       pollerVars>>

(* get_receipt_interview answering from the mirror without cache_receipt *)
get_receipt_interview_NoWriteBack(r, reply) ==
    LET got == GetReceipt(ReceiptKey(r.tenant_id, r.receipt_id))
        notFound(via) ==
            Ok("get", via, "projection_cache", 0, 1, FALSE, r,
               [found |-> FALSE])
    IN  /\ IF got.hit
           THEN /\ resp' = Ok("get", "cache_hit", "projection_cache",
                              got.age_ms, 1, FALSE, r,
                              [found |-> TRUE, receipt |-> got.receipt])
                /\ called' = {}
                /\ backing' = AfterRequests(called')
                /\ consulted' = <<Read("projection_cache", GetArgs(r))>>
           ELSE /\ consulted' = <<Read("projection_cache", GetArgs(r)),
                                  Read("ledger_mirror", GetArgs(r))>>
                /\ IF ~settings.ledger_mirror_url
                   THEN /\ resp' = notFound("mirror_unconfigured")
                        /\ called' = {}
                        /\ backing' = AfterRequests(called')
                   ELSE /\ called' = {"ledger_mirror"}
                        /\ backing' = AfterRequests(called')
                        /\ resp' =
                             IF reply.kind = "http_error"
                             THEN notFound("mirror_failed")
                             ELSE IF reply.kind = "not_found"
                             THEN notFound("mirror_404")
                             ELSE Ok("get", "mirror", "ledger_mirror", 0, 2,
                                     FALSE, r,
                                     [found |-> TRUE,
                                      receipt |-> reply.receipt])
        /\ UNCHANGED <<tool_log, settings, now, cacheVars, pollerVars>>

(* get_receipt_interview: `reply` is what the mirror would answer *)
get_receipt_interview(r, reply) ==
    LET got == GetReceipt(ReceiptKey(r.tenant_id, r.receipt_id))
        notFound(via) == GetNotFound(r, via)
    IN  /\ IF got.hit
           THEN /\ resp' = Ok("get", "cache_hit", "projection_cache",
                              got.age_ms, 1, FALSE, r,
                              [found |-> TRUE, receipt |-> got.receipt])
                /\ called' = {}
                /\ backing' = AfterRequests(called')
                /\ consulted' = <<Read("projection_cache", GetArgs(r))>>
                /\ UNCHANGED receipt_cache
           ELSE /\ consulted' = <<Read("projection_cache", GetArgs(r)),
                                  Read("ledger_mirror", GetArgs(r))>>
                /\ IF ~settings.ledger_mirror_url
                   THEN /\ resp' = notFound("mirror_unconfigured")
                        /\ called' = {}
                        /\ backing' = AfterRequests(called')
                        /\ UNCHANGED receipt_cache
                   ELSE /\ called' = {"ledger_mirror"}
                        /\ backing' = AfterRequests(called')
                        /\ IF reply.kind = "http_error"
                           THEN /\ resp' = notFound("mirror_failed")
                                /\ UNCHANGED receipt_cache
                           ELSE IF reply.kind = "not_found"
                           THEN /\ resp' = notFound("mirror_404")
                                /\ UNCHANGED receipt_cache
                           ELSE /\ receipt_cache' = CacheReceipt(reply.receipt)
                                /\ resp' = GetFromMirror(r, reply.receipt)
        /\ UNCHANGED <<tool_log, settings, now, status_cache, receipt_headers,
                       pollerVars>>

(* the keyword arguments of StorageMetadata.list_artifacts *)
InventoryArgs(r, limit) ==
    [tenant_id |-> r.tenant_id, root_task_id |-> r.root_task_id,
     deliverable_id |-> r.deliverable_id, limit |-> limit]

(* inventory_artifacts_depot_interview asking the index before it looks   *)
(* at the identifiers                                                     *)
inventory_artifacts_depot_interview_LateValidation(r, reply) ==
    LET limit == ClampLimit(r.limit)
    IN  /\ IF ~ValidControls(r)
           THEN /\ resp' = Unprocessable("inventory", r)
                /\ called' = {}
                /\ backing' = AfterRequests(called')
                /\ consulted' = <<>>
           ELSE /\ consulted' =
                     <<Read("storage_metadata", InventoryArgs(r, limit))>>
                /\ called' = IF settings.depotgate_url THEN {"depotgate"}
                             ELSE {}
                /\ backing' = AfterRequests(called')
                /\ resp' =
                     IF ~Truthy(r.root_task_id) /\ ~Truthy(r.deliverable_id)
                     THEN HttpError("inventory", "validation", 400,
                                    "ValidationError", r)
                     ELSE IF ~settings.depotgate_url
                             \/ reply.kind = "http_error"
                     THEN HttpError("inventory", "http_error", 503,
                                    "SourceUnavailableError", r)
                     ELSE Ok("inventory", "ok", "storage_metadata", 0,
                             CostOf(reply.items),
                             Truncated(reply.items, limit),
                             r, [items |-> reply.items])
        /\ UNCHANGED <<tool_log, settings, now, cacheVars, pollerVars>>

(* inventory_artifacts_depot_interview *)
inventory_artifacts_depot_interview(r, reply) ==
    LET limit == ClampLimit(r.limit)
    IN  /\ IF ~ValidControls(r)
           THEN /\ resp' = Unprocessable("inventory", r)
                /\ called' = {}
                /\ backing' = AfterRequests(called')
                /\ consulted' = <<>>
           ELSE IF ~Truthy(r.root_task_id) /\ ~Truthy(r.deliverable_id)
           THEN /\ resp' = HttpError("inventory", "validation", 400,
                                     "ValidationError", r)
                /\ called' = {}
                /\ backing' = AfterRequests(called')
                /\ consulted' = <<>>
           ELSE /\ consulted' =
                     <<Read("storage_metadata", InventoryArgs(r, limit))>>
                /\ IF ~settings.depotgate_url
                   THEN /\ resp' = Unavailable("inventory", "unconfigured", r)
                        /\ called' = {}
                        /\ backing' = AfterRequests(called')
                   ELSE /\ called' = {"depotgate"}
                        /\ backing' = AfterRequests(called')
                        /\ resp' =
                             IF reply.kind = "http_error"
                             THEN Unavailable("inventory", "http_error", r)
                             ELSE Ok("inventory", "ok", "storage_metadata", 0,
                                     CostOf(reply.items),
                                     Truncated(reply.items, limit),
                                     r, [items |-> reply.items])
        /\ UNCHANGED <<tool_log, settings, now, cacheVars, pollerVars>>

-----------------------------------------------------------------------------
(* GlobalLedger and the global-ledger operation *)

(* _check_access raising the disabled error for a missing endpoint too *)
CheckAccess_Conflated ==
    IF ~settings.allow_global_ledger \/ ~settings.global_ledger_url
    THEN "GlobalLedgerDisabledError"
    ELSE "ok"

(* GlobalLedger._check_access *)
CheckAccess ==
    IF ~settings.allow_global_ledger THEN "GlobalLedgerDisabledError"
    ELSE IF ~settings.global_ledger_url THEN "SourceUnavailableError"
    ELSE "ok"

GlobalLedgerDisabled(via, r) ==
    HttpError("global_ledger", via, 403, "GLOBAL_LEDGER_DISABLED", r)

(* global_ledger_query with the gate testing the endpoint instead of the   *)
(* opt-in flag                                                             *)
global_ledger_query_UrlGate(r, reply) ==
    /\ IF ~settings.global_ledger_url
       THEN /\ resp' = GlobalLedgerDisabled("flag_off", r)
            /\ called' = {}
            /\ backing' = AfterRequests(called')
            /\ consulted' = <<>>
       ELSE /\ called' = {"global_ledger"}
            /\ backing' = AfterRequests(called')
            /\ consulted' = <<Read("global_ledger", r)>>
            /\ resp' = IF reply.kind = "http_error"
                       THEN HttpError("global_ledger", "http_error", 503,
                                      "SourceUnavailableError", r)
                       ELSE Ok("global_ledger", "ok", "global_ledger", 0,
                               CostGlobalLedger, FALSE, r,
                               [items |-> reply.items])
    /\ UNCHANGED <<tool_log, settings, now, cacheVars, pollerVars>>

(* global_ledger_query: `reply` is what the endpoint would answer if it    *)
(* were asked, a list of headers or "http_error"                           *)
global_ledger_query(r, reply) ==
    /\ IF ~settings.allow_global_ledger
       THEN /\ resp' = GlobalLedgerDisabled("flag_off", r)
            /\ called' = {}
            /\ backing' = AfterRequests(called')
            /\ consulted' = <<>>
       ELSE IF CheckAccess = "GlobalLedgerDisabledError"
       THEN /\ resp' = GlobalLedgerDisabled("check_access", r)
            /\ called' = {}
            /\ backing' = AfterRequests(called')
            /\ consulted' = <<Read("global_ledger", r)>>
       ELSE IF CheckAccess = "SourceUnavailableError"
       THEN /\ resp' = Unavailable("global_ledger", "unconfigured", r)
            /\ called' = {}
            /\ backing' = AfterRequests(called')
            /\ consulted' = <<Read("global_ledger", r)>>
       ELSE /\ called' = {"global_ledger"}
            /\ backing' = AfterRequests(called')
            /\ consulted' = <<Read("global_ledger", r)>>
            /\ resp' = IF reply.kind = "http_error"
                       THEN Unavailable("global_ledger", "http_error", r)
                       ELSE Ok("global_ledger", "ok", "global_ledger", 0,
                               CostGlobalLedger, FALSE, r,
                               [items |-> reply.items])
    /\ UNCHANGED <<tool_log, settings, now, cacheVars, pollerVars>>

-----------------------------------------------------------------------------
(* The read-only guard on downstream tool names *)

(* the tools a source may call: searches, fetches, health and listings *)
READ_ONLY_MCP_TOOLS ==
    {"receiptgate.search_receipts", "receiptgate.get_receipt",
     "asyncgate.health", "asyncgate.list_tasks",
     "depotgate.get_deliverable", "list_staged_artifacts"}

(* a guard that lets every tool name through *)
assert_read_only_tool_AcceptsAll(tool) == "ok"

(* _assert_read_only_tool: returns for a tool of the allowlist, raises    *)
(* DataSourceError for any other name                                     *)
assert_read_only_tool(tool) ==
    IF tool \in READ_ONLY_MCP_TOOLS THEN "ok" ELSE "DataSourceError"

(* A caller checks a tool name *)
check_tool(tool) ==
    /\ Len(tool_log) < MaxChecks
    /\ tool_log' = Append(tool_log, [tool |-> tool,
                                     outcome |-> assert_read_only_tool(tool)])
    /\ UNCHANGED <<settings, now, cacheVars, pollerVars, resp, called,
                   consulted, backing>>

------------------------------------------------------------------------------
(* Construction *)

InitState ==
    /\ now = 0
    /\ status_cache = EmptyDict
    /\ receipt_headers = EmptyDict
    /\ receipt_cache = EmptyDict
    /\ poll_cache = EmptyDict
    /\ rate_limiter = EmptyDict
    /\ inflight = EmptyDict
    /\ issued = <<>>
    /\ resp = NoResp("none", "init", NoReq)
    /\ called = {}
    /\ consulted = <<>>
    /\ backing = [e \in Endpoints |-> 0]
    /\ tool_log = <<>>

(* Request and reply domains *)

ItemLists == {<<>>} \cup {[i \in 1..n |-> "item"] : n \in 1..MaxItems}
Replies == {[kind |-> "ok", items |-> l] : l \in ItemLists}
               \cup {[kind |-> "http_error"]}

(* what the component can answer: a health document, a queue document *)
QueueDataVals == {[queue_depth |-> 1, items |-> <<"item">>], [active |-> 0]}
ComponentData(op) == IF op = "health" THEN DataVals ELSE QueueDataVals

PollerHealthReqs == [tenant_id : {"t1"}, verbose : {FALSE}]
PollerQueueReqs == [tenant_id : {"t2"}, queue_id : {None}, limit : {1},
                    include_examples : {FALSE}]

HealthReqs == [tenant_id : {"t1"}, verbose : {FALSE}]
QueueReqs == [tenant_id : {"t1"}, queue_id : {None}, limit : {1},
              include_examples : {FALSE}]
StatusReqs == [tenant_id : {"t1"}, task_id : {None, "L1"},
               root_task_id : {None}]
SearchReqs == [tenant_id : {"t1"}, root_task_id : Lineages, phase : {None},
               recipient_ai : {None}, limit : {1}, since : {Absent},
               time_window_hours : {24},
               freshness : {"cache_ok", "prefer_fresh", "force_fresh"}]
GetReqs == [tenant_id : {"t1"}, receipt_id : {"r1"}]
InventoryReqs == [tenant_id : {"t1"}, root_task_id : {None, "L1"},
                  deliverable_id : {None}, limit : {1},
                  time_window_hours : {24}]
GlobalReqs == [tenant_id : {"t1"}, root_task_id : Lineages]

(* What the mirror can answer to a get: the receipt asked for, or none *)
ReceiptReplies(r) ==
    {[kind |-> "http_error"], [kind |-> "not_found"]} \cup
    {[kind |-> "ok",
      receipt |-> [tenant_id |-> r.tenant_id, receipt_id |-> r.receipt_id,
                   version |-> v]] : v \in {"v1"}}

(* The whole service: every public operation over every source *)
AllSettings ==
    {c \in SettingsSpace :
        /\ c.ledger_mirror_url = c.asyncgate_url
        /\ c.depotgate_url = c.asyncgate_url
        /\ (~c.asyncgate_url => ~c.allow_global_ledger /\ ~c.global_ledger_url)
        /\ c.component_poll_rate_limit_per_minute = 1
        /\ c.projection_cache_ttl_seconds = SecPerTick
        /\ c.max_limit = MaxItems}

Init == settings \in AllSettings /\ InitState

Next ==
    \/ TickAll
    \/ \E r \in StatusReqs : status_receipts_interview(r, <<>>)
    \/ \E r \in SearchReqs, reply \in Replies :
          search_receipts_interview(r, reply)
    \/ \E r \in GetReqs : \E reply \in ReceiptReplies(r) :
          get_receipt_interview(r, reply)
    \/ \E r \in HealthReqs : health_start(r)
    \/ \E r \in QueueReqs : queue_start(r)
    \/ \E p \in DOMAIN inflight : \E d \in ComponentData(p.op) : poll_ok(p, d)
    \/ \E p \in DOMAIN inflight : poll_fail(p)
    \/ \E p \in DOMAIN inflight : poll_cancel(p)
    \/ \E r \in InventoryReqs, reply \in Replies :
          inventory_artifacts_depot_interview(r, reply)
    \/ \E r \in GlobalReqs, reply \in Replies :
          global_ledger_query(r, reply)

Spec == Init /\ [][Next]_vars

(* The component poller alone, for every rate ceiling up to MaxRate *)
PollerSettings ==
    {c \in SettingsSpace :
        /\ ~c.allow_global_ledger /\ ~c.global_ledger_url
        /\ ~c.ledger_mirror_url /\ ~c.depotgate_url
        /\ c.projection_cache_ttl_seconds = SecPerTick
        /\ c.max_limit = MaxItems}

InitPoller == settings \in PollerSettings /\ InitState

NextPoller ==
    \/ Tick
    \/ \E r \in PollerHealthReqs : health_start(r)
    \/ \E r \in PollerQueueReqs : queue_start(r)
    \/ \E p \in DOMAIN inflight : \E d \in ComponentData(p.op) : poll_ok(p, d)
    \/ \E p \in DOMAIN inflight : poll_fail(p)
    \/ \E p \in DOMAIN inflight : poll_cancel(p)

SpecPoller == InitPoller /\ [][NextPoller]_vars

(* The projection cache alone, driven through its own interface *)
Statuses == [tenant_id : Tenants, root_task_id : Lineages,
             state : {"in_progress", "resolved"}]

CacheSettings ==
    {c \in SettingsSpace :
        /\ ~c.allow_global_ledger /\ ~c.global_ledger_url
        /\ ~c.ledger_mirror_url /\ ~c.depotgate_url /\ ~c.asyncgate_url
        /\ c.component_poll_rate_limit_per_minute = 1
        /\ c.max_limit = MaxItems}

InitCache == settings \in CacheSettings /\ InitState

NextCache ==
    \/ Tick
    \/ \E st \in Statuses : cache_status(st)
    \/ \E t \in Tenants, l \in Lineages : get_status(t, l)

SpecCache == InitCache /\ [][NextCache]_vars

(* The tool guard, asked about allowed, mutating and unknown tool names *)
ToolNames ==
    READ_ONLY_MCP_TOOLS \cup
        {"receiptgate.submit_receipt", "asyncgate.create_task",
         "depotgate.stage_artifact", "search_receipts", ""}

InitTools == settings \in CacheSettings /\ InitState

NextTools == \E tool \in ToolNames : check_tool(tool)

SpecTools == InitTools /\ [][NextTools]_vars

(* The component poller asked by tenants and about queues whose           *)
(* identifiers contain the separator of the cache key; the component      *)
(* answers each request with data naming the request it answers           *)
KeyTenants == {"a", "a:b"}
KeyHealthReqs == [tenant_id : KeyTenants, verbose : {FALSE}]
KeyQueueReqs == [tenant_id : KeyTenants, queue_id : {"c", "b:c"}, limit : {1},
                 include_examples : {FALSE}]

FetchedFor(p) == [op |-> p.op, req |-> p.req]
KeyedData(p) ==
    IF p.op = "health"
    THEN {[version |-> "d1", fetched_for |-> FetchedFor(p)]}
    ELSE {[queue_depth |-> 1, items |-> <<"item">>,
           fetched_for |-> FetchedFor(p)]}

KeySettings ==
    {c \in PollerSettings :
        /\ c.asyncgate_url
        /\ c.component_poll_rate_limit_per_minute = MaxRate}

InitKeys == settings \in KeySettings /\ InitState

NextKeys ==
    \/ Tick
    \/ \E r \in KeyHealthReqs : health_start(r)
    \/ \E r \in KeyQueueReqs : queue_start(r)
    \/ \E p \in DOMAIN inflight : \E d \in KeyedData(p) : poll_ok(p, d)
    \/ \E p \in DOMAIN inflight : poll_fail(p)
    \/ \E p \in DOMAIN inflight : poll_cancel(p)

SpecKeys == InitKeys /\ [][NextKeys]_vars

(* The search of the projection cache as a function of the cached list    *)
(* and the request: every list of up to MaxHeaders headers, every filter  *)
CachedHeaders ==
    [phase : {"accepted", "complete"}, recipient_ai : {None, "ai1"},
     created_at : {Absent, Some(0), Some(1)}]
CachedLists == UNION {[1..n -> CachedHeaders] : n \in 0..MaxHeaders}

CacheSearchReqs ==
    [tenant_id : {"t1"}, root_task_id : Lineages,
     phase : {None, "accepted", "complete"}, recipient_ai : {None, "ai1"},
     since : {Absent, Some(1)}, limit : 1..MaxHeaders]

SearchSettings ==
    {c \in CacheSettings : c.projection_cache_ttl_seconds = SecPerTick}

InitSearch ==
    /\ settings \in SearchSettings
    /\ now = 0
    /\ status_cache = EmptyDict
    /\ \E l \in CachedLists :
          receipt_headers = Put(EmptyDict, HeadersKey("t1", "L1"), l)
    /\ receipt_cache = EmptyDict
    /\ poll_cache = EmptyDict
    /\ rate_limiter = EmptyDict
    /\ inflight = EmptyDict
    /\ issued = <<>>
    /\ resp = NoResp("none", "init", NoReq)
    /\ called = {}
    /\ consulted = <<>>
    /\ backing = [e \in Endpoints |-> 0]
    /\ tool_log = <<>>

NextSearch == \E r \in CacheSearchReqs : search_receipts(r)

SpecSearch == InitSearch /\ [][NextSearch]_vars

(* Get-receipt asked by tenants and about receipts whose identifiers      *)
(* contain the separator of the cache key; the mirror answers with the    *)
(* receipt of the tenant and identifier it was asked for                  *)
KeyGetReqs == [tenant_id : KeyTenants, receipt_id : {"c", "b:c"}]

KeyReceiptSettings ==
    {c \in SettingsSpace :
        /\ ~c.allow_global_ledger /\ ~c.global_ledger_url /\ ~c.asyncgate_url
        /\ ~c.depotgate_url /\ c.ledger_mirror_url
        /\ c.component_poll_rate_limit_per_minute = 1
        /\ c.max_limit = MaxItems}

InitKeyReceipts == settings \in KeyReceiptSettings /\ InitState

NextKeyReceipts ==
    \/ Tick
    \/ \E r \in KeyGetReqs : \E reply \in ReceiptReplies(r) :
          get_receipt_interview(r, reply)

SpecKeyReceipts == InitKeyReceipts /\ [][NextKeyReceipts]_vars

(* The receipt and inventory operations, for every limit a caller can     *)
(* send, every configured maximum up to MaxItems and every since cutoff   *)
OldSince == 0 - (MaxWindowHours + 1) * TicksPerHour

LimitChoices == {0, 1, MaxItems, MaxItems + 1, FieldLimitMax + 1}

ReceiptSearchReqs ==
    [tenant_id : {"t1"}, root_task_id : Lineages, phase : {None},
     recipient_ai : {None}, limit : LimitChoices,
     since : {Absent, Some(OldSince)},
     time_window_hours : {24},
     freshness : {"cache_ok", "prefer_fresh", "force_fresh"}]

(* what the ledger can hold for one lineage: up to MaxItems headers *)
Phases == {"accepted", "escalate", "complete"}
HeaderLists(n) == [1..n -> [phase : Phases]]
LineageHeaders == UNION {HeaderLists(n) : n \in 0..MaxItems}

ReceiptInventoryReqs ==
    [tenant_id : {"t1"}, root_task_id : {None, "L1"}, deliverable_id : {None},
     limit : LimitChoices, time_window_hours : {24}]

ReceiptSettings ==
    {c \in SettingsSpace :
        /\ ~c.allow_global_ledger /\ ~c.global_ledger_url /\ ~c.asyncgate_url
        /\ c.depotgate_url = c.ledger_mirror_url
        /\ c.component_poll_rate_limit_per_minute = 1
        /\ c.projection_cache_ttl_seconds = SecPerTick}

InitReceipts == settings \in ReceiptSettings /\ InitState

NextReceipts ==
    \/ TickAll
    \/ \E r \in StatusReqs, held \in LineageHeaders :
          status_receipts_interview(r, held)
    \/ \E r \in ReceiptSearchReqs, reply \in Replies :
          search_receipts_interview(r, reply)
    \/ \E r \in GetReqs : \E reply \in ReceiptReplies(r) :
          get_receipt_interview(r, reply)
    \/ \E r \in ReceiptInventoryReqs, reply \in Replies :
          inventory_artifacts_depot_interview(r, reply)

SpecReceipts == InitReceipts /\ [][NextReceipts]_vars

(* The diagnostics operations, for every limit a caller can send and      *)
(* every number of item headers the component can return                  *)
DiagQueueReqs ==
    [tenant_id : {"t1"}, queue_id : {None},
     limit : {0, 1, MaxItems, QueueLimitField, QueueLimitField + 1},
     include_examples : BOOLEAN]

DiagItemLists == {[i \in 1..n |-> "item"] : n \in 0..(MaxItems + 1)}
DiagQueueData ==
    {[active |-> 0]} \cup
    {[queue_depth |-> Len(l) + 1, items |-> l] : l \in DiagItemLists}

DiagSettings ==
    {c \in SettingsSpace :
        /\ ~c.allow_global_ledger /\ ~c.global_ledger_url
        /\ ~c.ledger_mirror_url /\ ~c.depotgate_url
        /\ c.component_poll_rate_limit_per_minute = 1
        /\ c.projection_cache_ttl_seconds = SecPerTick
        /\ c.max_limit = MaxItems}

InitDiag == settings \in DiagSettings /\ InitState

NextDiag ==
    \/ TickAll
    \/ \E r \in HealthReqs : health_start(r)
    \/ \E r \in DiagQueueReqs : queue_start(r)
    \/ \E p \in DOMAIN inflight :
          \E d \in (IF p.op = "health" THEN DataVals ELSE DiagQueueData) :
             poll_ok(p, d)
    \/ \E p \in DOMAIN inflight : poll_fail(p)
    \/ \E p \in DOMAIN inflight : poll_cancel(p)

SpecDiag == InitDiag /\ [][NextDiag]_vars

-----------------------------------------------------------------------------
(* Claims about the global ledger gate *)

GlobalAnswered == resp.op = "global_ledger"

(* C1: with the opt-in flag off, every global-ledger query ends in         *)
(* GLOBAL_LEDGER_DISABLED (HTTP 403) and sends nothing to the global       *)
(* ledger endpoint, whether or not the endpoint is configured or reachable *)
C1_FlagOffAlwaysDisabled ==
    (GlobalAnswered /\ ~settings.allow_global_ledger) =>
        /\ resp.code = 403
        /\ resp.err = "GLOBAL_LEDGER_DISABLED"
        /\ called = {}

C1_Witness ==
    /\ GlobalAnswered
    /\ ~settings.allow_global_ledger
    /\ settings.global_ledger_url
    /\ resp.code = 403

(* C2: the flag is tested before the endpoint configuration: flag on and   *)
(* no endpoint gives SourceUnavailable (503), never the disabled error;    *)
(* flag off gives the disabled error (403), never SourceUnavailable        *)
C2_FlagBeforeEndpoint ==
    GlobalAnswered =>
        /\ (settings.allow_global_ledger /\ ~settings.global_ledger_url) =>
              /\ resp.code = 503
              /\ resp.err = "SourceUnavailableError"
              /\ called = {}
        /\ ~settings.allow_global_ledger =>
              /\ resp.code = 403
              /\ resp.err # "SourceUnavailableError"
        /\ (resp.err = "GLOBAL_LEDGER_DISABLED") <=> ~settings.allow_global_ledger
        /\ (resp.code = 403) <=> (resp.err = "GLOBAL_LEDGER_DISABLED")

C2_Witness ==
    /\ GlobalAnswered
    /\ settings.allow_global_ledger
    /\ ~settings.global_ledger_url
    /\ resp.code = 503

(* C3: no status, search, get-receipt, health, queue or inventory step,    *)
(* whatever its freshness, cache misses and source failures, sends a       *)
(* request to the global ledger; only the global-ledger operation does     *)
C3_OnlyExplicitOperationReachesGlobalLedger ==
    "global_ledger" \in called => GlobalAnswered

C3_Witness ==
    /\ resp.op = "search"
    /\ resp.req.freshness = "force_fresh"
    /\ resp.via = "mirror_failed"
    /\ settings.allow_global_ledger
    /\ settings.global_ledger_url
    /\ "global_ledger" \notin called

-----------------------------------------------------------------------------
(* Claims about the component poller *)

RateCeiling == settings.component_poll_rate_limit_per_minute

(* seconds between a recorded time and the clock *)
SecondsSince(t) == (now - t) * SecPerTick

(* the polls that went out within the 60 seconds ending at time t *)
IssuedInWindow(t) ==
    Cardinality({j \in 1..Len(issued) :
        issued[j] <= t /\ (t - issued[j]) * SecPerTick < WindowSeconds})

(* the step is the synchronous first part of a health or queue poll *)
IsPollStart ==
    /\ resp'.op \in {"health", "queue"}
    /\ resp'.via \in {"cache_hit", "unconfigured", "rate_limited", "issued"}

StartedKey ==
    IF resp'.op = "health" THEN HealthKey(resp'.req)
    ELSE QueueKey([resp'.req EXCEPT
                      !.limit = IF @ > QueueLimitCap THEN QueueLimitCap ELSE @])

(* the poll cache holds a result for the key younger than the cache duration *)
FreshEntry(key) ==
    /\ key \in DOMAIN poll_cache
    /\ SecondsSince(poll_cache[key].cached_at)
          < settings.component_poll_cache_seconds

(* the poll is not answered from the cache and the endpoint is configured *)
ReachesLimiter ==
    IsPollStart /\ ~FreshEntry(StartedKey) /\ settings.asyncgate_url

Recorded == IF "asyncgate" \in DOMAIN rate_limiter
            THEN rate_limiter["asyncgate"] ELSE <<>>

RecordedInWindow ==
    Cardinality({i \in 1..Len(Recorded) :
        SecondsSince(Recorded[i]) < WindowSeconds})

(* C4: at most N polls go out within any trailing 60-second window, and a  *)
(* poll that reaches the limiter when N polls are already inside the       *)
(* window is rejected with the rate-limit error                            *)
C4_AtMostNPerWindow ==
    /\ [](\A i \in 1..Len(issued) : IssuedInWindow(issued[i]) <= RateCeiling)
    /\ [][(ReachesLimiter /\ IssuedInWindow(now) >= RateCeiling) =>
            /\ resp'.via = "rate_limited"
            /\ resp'.err = "DataSourceError"
            /\ issued' = issued]_vars

C4_Witness ==
    /\ resp.via = "rate_limited"
    /\ RateCeiling = MaxRate
    /\ IssuedInWindow(now) = RateCeiling

(* the limiter holds N timestamps, all of them inside the window *)
LimiterFull ==
    /\ Len(Recorded) = RateCeiling
    /\ \A i \in 1..Len(Recorded) : SecondsSince(Recorded[i]) < WindowSeconds

(* the limiter holds N timestamps and only the oldest has left the window *)
OnlyOldestAged ==
    /\ Len(Recorded) = RateCeiling
    /\ SecondsSince(Recorded[1]) >= WindowSeconds
    /\ \A i \in 2..Len(Recorded) : SecondsSince(Recorded[i]) < WindowSeconds

(* C5: when the limiter is full and exactly the oldest recorded call is 60 *)
(* seconds old or older, one further poll is admitted and the limiter is   *)
(* full again, so the poll after it is rejected; a poll that arrives once  *)
(* the oldest recorded call is 60 seconds old is always admitted           *)
C5_OneSlotRestored ==
    [][/\ (ReachesLimiter /\ OnlyOldestAged) =>
            (resp'.via = "issued" /\ LimiterFull')
       /\ (ReachesLimiter /\ LimiterFull) =>
            (resp'.via = "rate_limited" /\ LimiterFull')
       /\ (ReachesLimiter /\ Recorded # <<>>
             /\ SecondsSince(Recorded[1]) >= WindowSeconds) =>
            resp'.via = "issued"]_vars

C5_Witness ==
    LET n == Len(issued)
    IN  /\ resp.via = "issued"
        /\ RateCeiling = MaxRate
        /\ n > RateCeiling
        /\ issued[n] = now
        /\ SecondsSince(issued[n - RateCeiling]) >= WindowSeconds
        /\ \A j \in (n - RateCeiling + 1)..n :
              SecondsSince(issued[j]) < WindowSeconds
        /\ LimiterFull

(* C6: a poll answered from the poll cache leaves the limiter's timestamps *)
(* unchanged and sends nothing to the component; it succeeds with the      *)
(* cached result even when the limiter is full                             *)
C6_CacheHitCostsNoSlot ==
    [][(IsPollStart /\ FreshEntry(StartedKey)) =>
        /\ resp'.code = 200
        /\ resp'.op = "health"
              => resp'.body =
                   [reachable |-> TRUE, data |-> poll_cache[StartedKey].data]
        /\ resp'.op = "queue"
              => resp'.body.queue_depth =
                   (IF "queue_depth" \in DOMAIN poll_cache[StartedKey].data
                    THEN poll_cache[StartedKey].data.queue_depth ELSE 0)
        /\ resp'.age_ms =
             SecondsSince(poll_cache[StartedKey].cached_at) * 1000
        /\ rate_limiter' = rate_limiter
        /\ issued' = issued
        /\ inflight' = inflight
        /\ called' = {}]_vars

C6_Witness ==
    /\ resp.via = "cache_hit"
    /\ resp.code = 200
    /\ LimiterFull

(* C7: a poll rejected by the limiter is answered with HTTP 429 and never  *)
(* with the degraded reachable=false answer of an unavailable source; no   *)
(* request goes out for it and none is left in flight to retry             *)
C7_RateLimitSurfaced ==
    [][(ReachesLimiter /\ RecordedInWindow >= RateCeiling) =>
        /\ resp'.code = 429
        /\ resp'.body = NoBody
        /\ resp'.source = None
        /\ called' = {}
        /\ inflight' = inflight
        /\ issued' = issued]_vars

C7_Witness ==
    /\ resp.op = "queue"
    /\ resp.code = 429
    /\ RecordedInWindow >= RateCeiling

(* the timestamps of the limiter that are still inside the window *)
RecordedLive ==
    SelectSeq(Recorded, LAMBDA t : SecondsSince(t) < WindowSeconds)

(* the step ends a poll without a result: timeout, transport failure or a  *)
(* caller that went away                                                   *)
IsPollFailure ==
    /\ resp'.op \in {"health", "queue"}
    /\ resp'.via \in {"timeout", "http_error", "cancelled"}

(* the step that sends a poll records exactly one timestamp *)
SlotConsumedAtIssue ==
    resp'.via = "issued" =>
        /\ rate_limiter' =
              Put(rate_limiter, "asyncgate", Append(RecordedLive, now))
        /\ BagSize(inflight') = BagSize(inflight) + 1

(* C8 as stated: a poll that reaches the network and then fails has        *)
(* consumed one rate-limit slot and left the poll cache as it was          *)
C8_FailedPollLeavesCacheUnchanged ==
    [][/\ SlotConsumedAtIssue
       /\ resp'.via = "issued" => poll_cache' = poll_cache
       /\ IsPollFailure =>
            (poll_cache' = poll_cache /\ rate_limiter' = rate_limiter)]_vars

(* C8 amended: the slot is consumed in the step that sends the poll; the   *)
(* poll cache gains or changes an entry only in the step of a successful   *)
(* answer; a failing poll changes the limiter by its one timestamp and the *)
(* cache at most by evicting the expired entry of its own key before the   *)
(* call                                                                    *)
C8_SlotFirstCacheWriteOnSuccess ==
    [][/\ SlotConsumedAtIssue
       /\ resp'.via = "issued" =>
            /\ \A k \in DOMAIN poll_cache' :
                  k \in DOMAIN poll_cache /\ poll_cache'[k] = poll_cache[k]
            /\ \A k \in DOMAIN poll_cache \ DOMAIN poll_cache' :
                  k = StartedKey /\ ~FreshEntry(k)
       /\ IsPollFailure =>
            (poll_cache' = poll_cache /\ rate_limiter' = rate_limiter)
       /\ (\E k \in DOMAIN poll_cache' :
              k \notin DOMAIN poll_cache \/ poll_cache'[k] # poll_cache[k]) =>
            (resp'.via = "ok" /\ rate_limiter' = rate_limiter)]_vars

C8_Witness ==
    /\ resp.op = "health"
    /\ resp.via = "timeout"
    /\ Recorded # <<>>
    /\ Recorded[Len(Recorded)] = now
    /\ HealthKey(resp.req) \notin DOMAIN poll_cache
    /\ \E k \in DOMAIN poll_cache : TRUE

-----------------------------------------------------------------------------
(* Claims about the projection cache *)

TtlSeconds == settings.projection_cache_ttl_seconds

ReadKey == StatusKey(resp'.req.tenant_id, resp'.req.root_task_id)

(* C9: a status written at time T is a hit, with age now - T, for every    *)
(* get_status strictly before T + TTL; a get_status at or after T + TTL is *)
(* a miss and removes the entry, and reads of a missing entry miss         *)
C9_StatusTtl ==
    [][/\ resp'.op = "cache_status" =>
            status_cache' =
              Put(status_cache,
                  StatusKey(resp'.req.tenant_id, resp'.req.root_task_id),
                  [status |-> resp'.req, cached_at |-> now])
       /\ resp'.op = "get_status" =>
            IF ReadKey \in DOMAIN status_cache
            THEN LET e == status_cache[ReadKey]
                 IN  IF now * SecPerTick < e.cached_at * SecPerTick + TtlSeconds
                     THEN /\ resp'.via = "hit"
                          /\ resp'.body = e.status
                          /\ resp'.age_ms = SecondsSince(e.cached_at) * 1000
                          /\ status_cache' = status_cache
                     ELSE /\ resp'.via = "miss"
                          /\ ReadKey \notin DOMAIN status_cache'
            ELSE /\ resp'.via = "miss"
                 /\ status_cache' = status_cache]_vars

C9_Witness ==
    /\ resp.op = "get_status"
    /\ resp.via = "hit"
    /\ TtlSeconds = 2 * SecPerTick
    /\ resp.age_ms = SecPerTick * 1000

(* C10: a full receipt read from the projection cache is never older than  *)
(* the TTL: get_receipt never returns a receipt cached at T at or after    *)
(* T + TTL                                                                 *)
C10_ReceiptReadHonoursTtl ==
    (resp.op = "get" /\ resp.via = "cache_hit") =>
        resp.age_ms < TtlSeconds * 1000

-----------------------------------------------------------------------------
(* The receipt operations: search, get, status, inventory *)

(* the request passed pydantic's bounds on limit *)
Accepted(r) == r.limit >= 1 /\ r.limit <= FieldLimitMax

(* the projection cache holds no header for the lineage of request r *)
NoCachedHeaders(r) ==
    LET key == r.tenant_id \o ":" \o r.root_task_id
    IN  key \notin DOMAIN receipt_headers \/ receipt_headers[key] = <<>>

(* the mirror is configured, reachable and answers with headers *)
MirrorHolds(reply) ==
    settings.ledger_mirror_url /\ reply.kind = "ok" /\ reply.items # <<>>

(* C11: a search with freshness=cache_ok that finds no header in the      *)
(* projection cache, while the ledger mirror is reachable and holds        *)
(* matching receipts, queries the mirror, returns the mirror's headers and *)
(* attributes the response to ledger_mirror.                               *)
C11_CacheOkFallsBackToMirror ==
    [][\A r \in ReceiptSearchReqs, reply \in Replies :
          (/\ search_receipts_interview(r, reply)
           /\ Accepted(r)
           /\ r.freshness = "cache_ok"
           /\ NoCachedHeaders(r)
           /\ MirrorHolds(reply))
          => /\ "ledger_mirror" \in called'
             /\ resp'.source = "ledger_mirror"
             /\ resp'.body = [items |-> reply.items]]_vars

(* C12: a search never writes to the projection cache: whatever the      *)
(* freshness value and whatever the mirror answers, the cached statuses,  *)
(* the cached receipt headers and the cached full receipts are the same   *)
(* after the search as before it.                                         *)
C12_SearchWritesNoCache ==
    [][resp'.op = "search"
          => /\ status_cache' = status_cache
             /\ receipt_headers' = receipt_headers
             /\ receipt_cache' = receipt_cache]_vars

(* a search answered by the mirror with headers, over a cache that holds  *)
(* a receipt                                                              *)
C12_Witness ==
    /\ resp.op = "search"
    /\ resp.source = "ledger_mirror"
    /\ resp.body.items # <<>>
    /\ DOMAIN receipt_cache # {}
    /\ DOMAIN receipt_headers = {}

(* the sources the last step read, as a set *)
SourcesRead == {consulted[i].source : i \in DOMAIN consulted}

(* the last step answered a search request that passed validation *)
SearchAnswered == resp.op = "search" /\ resp.code # 422

(* C13: a search with freshness=prefer_fresh consults the ledger mirror   *)
(* first; the projection cache is read only after the mirror signalled    *)
(* that it is unavailable, and the response is then attributed to         *)
(* projection_cache.                                                      *)
C13_PreferFreshMirrorFirst ==
    (SearchAnswered /\ resp.req.freshness = "prefer_fresh")
    => /\ consulted # <<>>
       /\ consulted[1].source = "ledger_mirror"
       /\ "projection_cache" \in SourcesRead
             => resp.source = "projection_cache"

(* C14: a search with freshness=force_fresh never reads the projection    *)
(* cache and never returns cache-attributed data; when the ledger mirror  *)
(* is unavailable the caller gets the unavailability, not an empty or     *)
(* cached result.                                                         *)
C14_ForceFreshBypassesCache ==
    (SearchAnswered /\ resp.req.freshness = "force_fresh")
    => /\ "projection_cache" \notin SourcesRead
       /\ resp.source # "projection_cache"
       /\ ~settings.ledger_mirror_url => resp.code # 200

(* the cache key of the receipt a get request asks for *)
AskedKey(r) == r.tenant_id \o ":" \o r.receipt_id

(* the projection cache holds the receipt under key and the entry is      *)
(* younger than the configured lifetime                                   *)
LiveReceipt(key) ==
    /\ key \in DOMAIN receipt_cache
    /\ (now - receipt_cache[key].cached_at) * SecPerTick
          < settings.projection_cache_ttl_seconds

(* C15: get-receipt reads the projection cache first and the ledger       *)
(* mirror only on a cache miss; a receipt returned by the mirror is in    *)
(* the projection cache when the response is produced, and a get for a    *)
(* receipt cached within its lifetime is answered with                    *)
(* source=projection_cache and no mirror call.                            *)
C15_GetCacheFirstWriteBack ==
    [][resp'.op = "get"
          => LET key == AskedKey(resp'.req)
             IN  /\ consulted' # <<>>
                 /\ consulted'[1].source = "projection_cache"
                 /\ (\E i \in DOMAIN consulted' :
                        consulted'[i].source = "ledger_mirror")
                       => ~LiveReceipt(key)
                 /\ "ledger_mirror" \in called' => ~LiveReceipt(key)
                 /\ resp'.source = "ledger_mirror"
                       => /\ key \in DOMAIN receipt_cache'
                          /\ receipt_cache'[key].receipt = resp'.body.receipt
                          /\ receipt_cache'[key].cached_at = now
                 /\ LiveReceipt(key)
                       => /\ resp'.source = "projection_cache"
                          /\ resp'.body.found
                          /\ resp'.body.receipt = receipt_cache[key].receipt
                          /\ called' = {}
                          /\ Len(consulted') = 1]_vars

(* a get answered from the cache, for a receipt the mirror delivered      *)
(* earlier in the same lifetime                                           *)
C15_Witness ==
    /\ resp.op = "get"
    /\ resp.source = "projection_cache"
    /\ resp.body.found
    /\ called = {}
    /\ LiveReceipt(AskedKey(resp.req))

(* the lineage a status request names *)
LineageOf(r) ==
    <<r.tenant_id,
      IF r.root_task_id # "None" THEN r.root_task_id ELSE r.task_id>>

(* the projection cache holds a status of the lineage younger than the TTL *)
LiveStatus(key) ==
    /\ key \in DOMAIN status_cache
    /\ (now - status_cache[key].cached_at) * SecPerTick
          < settings.projection_cache_ttl_seconds

(* C16: a status request that misses the projection cache queries the     *)
(* ledger mirror, writes the status derived from the mirror's headers to  *)
(* the projection cache and returns it with source=ledger_mirror, so that *)
(* the next status request for the lineage within the TTL is a cache hit. *)
C16_StatusMissQueriesMirror ==
    [][(/\ resp'.op = "status"
        /\ resp'.code = 200
        /\ settings.ledger_mirror_url
        /\ ~LiveStatus(LineageOf(resp'.req)))
          => LET key == LineageOf(resp'.req)
             IN  /\ "ledger_mirror" \in called'
                 /\ resp'.source = "ledger_mirror"
                       => /\ key \in DOMAIN status_cache'
                          /\ status_cache'[key].status = resp'.body
                          /\ status_cache'[key].cached_at = now]_vars

(* the phases of a list of headers *)
PhasesOf(headers) == {headers[i].phase : i \in DOMAIN headers}

(* the state a lineage's headers stand for when none marks a shipment *)
DerivedState(headers) ==
    IF "complete" \in PhasesOf(headers) THEN "resolved"
    ELSE IF "escalate" \in PhasesOf(headers) THEN "escalated"
    ELSE IF "accepted" \in PhasesOf(headers) THEN "in_progress"
    ELSE "unknown"

(* C17: for every set of receipt headers of one lineage with no shipment  *)
(* marker, the state a status request derives is resolved if any header   *)
(* has phase complete, otherwise escalated if any has phase escalate,     *)
(* otherwise in_progress if any has phase accepted, otherwise unknown;    *)
(* the empty set derives unknown.                                         *)
C17_DerivedStateByPriority ==
    [][\A r \in StatusReqs, held \in LineageHeaders :
          (/\ status_receipts_interview(r, held)
           /\ resp'.code = 200
           /\ settings.ledger_mirror_url
           /\ ~LiveStatus(LineageOf(r)))
          => resp'.body.state = DerivedState(held)]_vars

(* the effective limit of a request: max(1, min(L, M)) *)
EffectiveLimit(requested) ==
    LET m == IF requested <= settings.max_limit
             THEN requested ELSE settings.max_limit
    IN  IF m >= 1 THEN m ELSE 1

(* the last step answered a search or an inventory request with a list *)
ListAnswered == resp.op \in {"search", "inventory"} /\ resp.code = 200

(* C18: in search and artifact-inventory responses the truncated flag is  *)
(* true exactly when the number of returned items is greater than or      *)
(* equal to the effective limit, whichever source answered.               *)
C18_TruncatedIffAtLimit ==
    ListAnswered
    => (resp.truncated
          <=> Len(resp.body.items) >= EffectiveLimit(resp.req.limit))

(* the mirror returned exactly as many headers as the effective limit *)
C18_Witness ==
    /\ ListAnswered
    /\ resp.source = "ledger_mirror"
    /\ resp.truncated
    /\ Len(resp.body.items) = EffectiveLimit(resp.req.limit)
    /\ resp.req.limit > settings.max_limit

OldestCutoff == now - MaxWindowHours * 60 * TicksPerMinute

(* C20: for every search request carrying an explicit since older than    *)
(* now minus max_window_hours, the since passed to the projection cache   *)
(* and to the ledger mirror equals now minus max_window_hours; no source  *)
(* is queried with an older cutoff.                                       *)
C20_SinceClamped ==
    (/\ SearchAnswered
     /\ resp.req.since # <<>>
     /\ resp.req.since[1] < OldestCutoff)
    => \A i \in DOMAIN consulted :
          consulted[i].args.since = <<OldestCutoff>>

-----------------------------------------------------------------------------
(* The diagnostics operations and the error paths *)

(* min(requested limit, 50) *)
QueueBound(requested) == IF requested <= 50 THEN requested ELSE 50

(* the last step answered a queue-diagnostics request *)
QueueAnswered == resp.op = "queue" /\ resp.code = 200

(* C21: every queue-diagnostics response carries at most                  *)
(* min(requested limit, 50) item headers, whatever number of items the    *)
(* component returned; the limit sent to the component is never above 50; *)
(* with include_examples false the response carries no item header.       *)
C21_QueueItemsBounded ==
    /\ QueueAnswered
          => /\ Len(resp.body.items) <= QueueBound(resp.req.limit)
             /\ ~resp.req.include_examples => resp.body.items = <<>>
    /\ resp.op = "queue"
          => \A i \in DOMAIN consulted : consulted[i].args.limit <= 50

(* the component returned more item headers than the caller asked for *)
C21_Witness ==
    /\ QueueAnswered
    /\ resp.req.include_examples
    /\ resp.via = "ok"
    /\ Len(resp.body.items) = resp.req.limit
    /\ resp.body.queue_depth > resp.req.limit + 1

ItemsReturned ==
    IF "items" \in DOMAIN resp.body THEN Len(resp.body.items)
    ELSE IF "receipt" \in DOMAIN resp.body THEN 1
    ELSE 0

(* the polled component produced the data of the response, now or earlier *)
ComponentAnswered ==
    /\ resp.op \in {"health", "queue"}
    /\ resp.code = 200
    /\ resp.via \in {"ok", "cache_hit"}

(* C23: cost_units of every response is set by the source that answered:  *)
(* 1 for a projection-cache answer, at least 1 and growing only with the  *)
(* work done for a mirror or storage-metadata query, 5 for a component    *)
(* poll, 100 for a global-ledger query; a source that was tried without   *)
(* answering adds nothing.                                                *)
C23_CostBySource ==
    resp.code = 200
    => /\ resp.source = "projection_cache" => resp.cost = 1
       /\ resp.source \in {"ledger_mirror", "storage_metadata"}
             => resp.cost >= 1 /\ resp.cost <= 1 + ItemsReturned
       /\ ComponentAnswered => resp.cost = 5
       /\ (resp.source = "component_poll" /\ ~ComponentAnswered)
             => resp.cost = 1
       /\ resp.source = "global_ledger" => resp.cost = 100

(* a receipt the cache missed and the mirror could not deliver: two       *)
(* sources tried, the cost of one cache answer                            *)
C23_Witness ==
    /\ resp.op = "get"
    /\ resp.code = 200
    /\ "ledger_mirror" \in called
    /\ ~resp.body.found
    /\ resp.cost = 1

(* the request names no lineage: a status request without task_id and     *)
(* root_task_id, an inventory request without root_task_id and            *)
(* deliverable_id                                                         *)
NamesNothing(op, r) ==
    \/ op = "status" /\ r.task_id = "None" /\ r.root_task_id = "None"
    \/ op = "inventory" /\ r.root_task_id = "None"
                        /\ r.deliverable_id = "None"

(* C24: a status request with neither task_id nor root_task_id, and an    *)
(* inventory request with neither root_task_id nor deliverable_id, is     *)
(* rejected with a validation error before any source is consulted: no    *)
(* cache read, no network call, no change to cache or rate-limiter state. *)
C24_ValidationBeforeSources ==
    [][(resp'.op \in {"status", "inventory"}
          /\ NamesNothing(resp'.op, resp'.req))
          => /\ resp'.code \in {400, 422}
             /\ resp'.err = "ValidationError"
             /\ resp'.body = NoBody
             /\ consulted' = <<>>
             /\ called' = {}
             /\ status_cache' = status_cache
             /\ receipt_headers' = receipt_headers
             /\ receipt_cache' = receipt_cache
             /\ poll_cache' = poll_cache
             /\ rate_limiter' = rate_limiter
             /\ inflight' = inflight]_vars

(* an inventory request without identifiers, rejected although the index  *)
(* is configured and the cache holds a receipt                            *)
C24_Witness ==
    /\ resp.op = "inventory"
    /\ NamesNothing(resp.op, resp.req)
    /\ resp.code = 400
    /\ settings.depotgate_url
    /\ DOMAIN receipt_cache # {}

(* the response of the step is the successful degraded answer *)
DegradedAnswer ==
    /\ resp'.code = 200
    /\ resp'.err = "None"
    /\ resp'.source = "component_poll"
    /\ resp'.op = "health" => resp'.body = [reachable |-> FALSE]
    /\ resp'.op = "queue"
          => resp'.body.queue_depth = 0 /\ resp'.body.items = <<>>

(* C25: when the component poller signals SourceUnavailable (endpoint     *)
(* unconfigured, timeout or transport failure) the health operation       *)
(* answers successfully with reachable=false and the queue operation      *)
(* answers successfully with zero depth and no items; neither raises an   *)
(* error to the caller.                                                   *)
C25_DiagnosticsDegrade ==
    [][/\ (IsPollStart /\ ~FreshEntry(StartedKey) /\ ~settings.asyncgate_url)
             => DegradedAnswer
       /\ \A p \in DOMAIN inflight : poll_fail(p) => DegradedAnswer]_vars

(* a queue poll that went out and timed out or failed in transport *)
C25_Witness ==
    /\ resp.op = "queue"
    /\ resp.via \in {"timeout", "http_error"}
    /\ resp.code = 200
    /\ resp.body.items = <<>>
    /\ issued # <<>>

(* the source of the operation cannot answer: its endpoint is not         *)
(* configured or its reply is a transport or HTTP failure                 *)
SourceDown(configured, reply) == ~configured \/ reply.kind = "http_error"

(* the caller is told the source is unavailable *)
Told503 ==
    /\ resp'.code = 503
    /\ resp'.err = "SourceUnavailableError"
    /\ resp'.body = NoBody

(* C26: when the storage-metadata source of artifact inventory, or the    *)
(* enabled global ledger, signals SourceUnavailable, the operation        *)
(* propagates an explicit 503 to the caller and never returns an empty    *)
(* successful result in its place.                                        *)
C26_UnavailablePropagates ==
    [][LET r == resp'.req
       IN  /\ (resp'.op = "inventory" /\ ~NamesNothing("inventory", r)
                 /\ Accepted(r))
                 => \A reply \in Replies :
                       (inventory_artifacts_depot_interview(r, reply)
                          /\ SourceDown(settings.depotgate_url, reply))
                       => Told503
           /\ (resp'.op = "global_ledger" /\ settings.allow_global_ledger)
                 => \A reply \in Replies :
                       (global_ledger_query(r, reply)
                          /\ SourceDown(settings.global_ledger_url, reply))
                       => Told503]_vars

(* the artifact index was asked and its call failed *)
C26_Witness ==
    /\ resp.op = "inventory"
    /\ "depotgate" \in called
    /\ resp.code = 503

(* the mirror cannot deliver the receipt: it does not know the id, or it  *)
(* is unconfigured or failing                                             *)
MirrorHasNot(reply) ==
    ~settings.ledger_mirror_url \/ reply.kind \in {"not_found", "http_error"}

(* C27: a get-receipt request for a receipt id that is neither in the     *)
(* projection cache nor known to the ledger mirror, or whose mirror       *)
(* lookup signals SourceUnavailable, returns a successful negative result *)
(* (found=false, no receipt), never an error, and leaves the projection   *)
(* cache unchanged.                                                       *)
C27_NotFoundIsNegativeResult ==
    [][resp'.op = "get"
          => LET r == resp'.req
             IN  \A reply \in ReceiptReplies(r) :
                    (/\ get_receipt_interview(r, reply)
                     /\ AskedKey(r) \notin DOMAIN receipt_cache
                     /\ MirrorHasNot(reply))
                    => /\ resp'.code = 200
                       /\ resp'.err = "None"
                       /\ resp'.body = [found |-> FALSE]
                       /\ status_cache' = status_cache
                       /\ receipt_headers' = receipt_headers
                       /\ receipt_cache' = receipt_cache]_vars

(* the mirror was asked for a receipt the cache did not hold and had none *)
C27_Witness ==
    /\ resp.op = "get"
    /\ resp.code = 200
    /\ ~resp.body.found
    /\ "ledger_mirror" \in called
    /\ AskedKey(resp.req) \notin DOMAIN receipt_cache

(* the source methods the step called, counted with repetitions, name     *)
(* each source once                                                       *)
EachSourceOnce(reads) ==
    \A i, j \in DOMAIN reads : reads[i].source = reads[j].source => i = j

(* the endpoint behind each source *)
EndpointOf(source) ==
    CASE source = "ledger_mirror" -> "ledger_mirror"
      [] source = "component_poll" -> "asyncgate"
      [] source = "storage_metadata" -> "depotgate"
      [] source = "global_ledger" -> "global_ledger"
      [] OTHER -> "none"

(* C28: within one request each backing source (ledger mirror, component  *)
(* endpoint, storage metadata, global ledger) is called at most once: a   *)
(* failed or timed-out downstream call is never sent again to the same    *)
(* source, by the client or by the operation.                             *)
C28_NoRetry ==
    [][/\ EachSourceOnce(consulted')
       /\ \A e \in called' :
             \E i \in DOMAIN consulted' : EndpointOf(consulted'[i].source) = e
       /\ issued' # issued
             => /\ Len(issued') = Len(issued) + 1
                /\ BagSize(inflight') = BagSize(inflight) + 1
                /\ Len(consulted') = 1
       /\ BagSize(inflight') < BagSize(inflight)
             => /\ BagSize(inflight') = BagSize(inflight) - 1
                /\ issued' = issued
                /\ called' = {}]_vars

(* the only poll that went out has failed and nothing is in flight *)
C28_Witness ==
    /\ resp.op \in {"health", "queue"}
    /\ resp.via \in {"timeout", "http_error"}
    /\ Len(issued) = 1
    /\ DOMAIN inflight = {}

(* C29: no operation changes the state of a backing store. Every request  *)
(* a step sends downstream is a GET, the ledger mirror, the polled        *)
(* component, the artifact index and the global ledger keep the content   *)
(* they had, and the configuration is left alone: what a step may change  *)
(* is the engine's own projection cache, poll cache and rate limiter.     *)
C29_BackingStoresUntouched ==
    [][/\ \A e \in called' : HttpMethod(e) = "GET"
       /\ backing' = backing
       /\ settings' = settings]_vars

(* a receipt fetched from the ledger mirror has been written to the       *)
(* projection cache, and the mirror is as it was                          *)
C29_Witness ==
    /\ resp.op = "get"
    /\ resp.via = "mirror"
    /\ called = {"ledger_mirror"}
    /\ receipt_cache # EmptyDict
    /\ \A e \in Endpoints : backing[e] = 0

(* C30: the tool guard accepts every tool name of the read-only           *)
(* allowlist, the receipt search and get, the asyncgate health and        *)
(* list_tasks, the depotgate get_deliverable and the list_staged_artifacts *)
(* tools among them, and raises DataSourceError for every other name,     *)
(* receiptgate.submit_receipt among them.                                 *)
C30_ReadOnlyToolGuard ==
    /\ \A i \in DOMAIN tool_log :
          /\ tool_log[i].tool \in READ_ONLY_MCP_TOOLS
                => tool_log[i].outcome = "ok"
          /\ tool_log[i].tool \notin READ_ONLY_MCP_TOOLS
                => tool_log[i].outcome = "DataSourceError"
          /\ tool_log[i].tool \in
                {"receiptgate.search_receipts", "receiptgate.get_receipt",
                 "asyncgate.health", "asyncgate.list_tasks",
                 "depotgate.get_deliverable", "list_staged_artifacts"}
                => tool_log[i].outcome = "ok"
          /\ tool_log[i].tool = "receiptgate.submit_receipt"
                => tool_log[i].outcome = "DataSourceError"

(* an allowed tool and the mutating submit_receipt have both been checked *)
C30_Witness ==
    /\ \E i \in DOMAIN tool_log : tool_log[i].tool = "asyncgate.list_tasks"
    /\ \E i \in DOMAIN tool_log :
          /\ tool_log[i].tool = "receiptgate.submit_receipt"
          /\ tool_log[i].outcome = "DataSourceError"

-----------------------------------------------------------------------------
(* The poller's cache and rate limiter across tenants and interleavings *)

(* the cache key the poller computes for a request of an operation *)
KeyOf(op, r) ==
    IF op = "health" THEN HealthKey(r)
    ELSE QueueKey([r EXCEPT !.limit = QueueLimit(r)])

(* the last step answered a poll from the poll result cache *)
AnsweredFromPollCache == resp.via = "cache_hit" /\ resp.code = 200

(* C31: a poll result cached for one operation, tenant and request shape  *)
(* is never returned for a request that differs in operation, tenant,     *)
(* verbose flag, queue id, limit or include_examples flag: the entry a    *)
(* cache hit returns was fetched for the very request that hits.          *)
C31_CacheHitSameRequest ==
    AnsweredFromPollCache
        => poll_cache[KeyOf(resp.op, resp.req)].data.fetched_for
              = [op |-> resp.op, req |-> resp.req]

(* the polls sent within the trailing window, in the order they were sent *)
IssuedLive == SelectSeq(issued, LAMBDA t : SecondsSince(t) < WindowSeconds)

(* C32: with several polls in flight against the one limiter, pruning,    *)
(* the count test and the recording of the timestamp are one step of one  *)
(* request: the timestamps of the limiter inside the window are exactly   *)
(* the polls sent inside the window (none lost, none added), there are    *)
(* never more than N of them, and each step that changes the limiter      *)
(* leaves the pruned list, extended by the current time when the count    *)
(* was below N.                                                           *)
C32_LimiterStepAtomic ==
    /\ [](/\ RecordedLive = IssuedLive
          /\ Len(IssuedLive) <= RateCeiling
          /\ BagSize(inflight) <= Len(issued))
    /\ [][rate_limiter' # rate_limiter =>
            /\ IsPollStart
            /\ rate_limiter' =
                  Put(rate_limiter, "asyncgate",
                      IF Len(RecordedLive) < RateCeiling
                      THEN Append(RecordedLive, now) ELSE RecordedLive)]_vars

(* two polls sent at the same time are both awaiting the component and    *)
(* both are recorded                                                      *)
C32_Witness ==
    /\ BagSize(inflight) = 2
    /\ RateCeiling = MaxRate
    /\ Len(issued) >= 2
    /\ issued[Len(issued)] = now
    /\ issued[Len(issued) - 1] = now
    /\ Len(RecordedLive) >= 2

(* C33: the rate limit is one budget for the polled component, shared by  *)
(* health and queue polls and by all tenants: the limiter keeps a single  *)
(* list, under the component's name, and once N polls of any operations   *)
(* and tenants went out within 60 seconds, the next poll that is not      *)
(* answered from the cache is rejected, whatever its operation and        *)
(* tenant.                                                                *)
C33_OneBudgetPerComponent ==
    /\ [](DOMAIN rate_limiter \subseteq {"asyncgate"})
    /\ [][\A op \in {"health", "queue"}, t \in Tenants :
            (/\ ReachesLimiter
             /\ resp'.op = op
             /\ resp'.req.tenant_id = t
             /\ Len(IssuedLive) >= RateCeiling)
            => /\ resp'.code = 429
               /\ resp'.err = "DataSourceError"
               /\ Len(issued') = Len(issued)]_vars

(* N health polls of one tenant are awaiting the component, no other poll *)
(* was ever sent, and a queue poll of another tenant has been rejected    *)
C33_Witness ==
    /\ resp.op = "queue"
    /\ resp.code = 429
    /\ RateCeiling = MaxRate
    /\ Len(issued) = RateCeiling
    /\ BagSize(inflight) = RateCeiling
    /\ \A p \in DOMAIN inflight :
          p.op = "health" /\ p.req.tenant_id # resp.req.tenant_id

CacheSeconds == settings.component_poll_cache_seconds

(* the step is the first part of a poll whose key has a cached entry *)
PollFindsEntry == IsPollStart /\ StartedKey \in DOMAIN poll_cache

(* C34: a poll result cached at time T is returned, with age now - T, by  *)
(* every identical poll strictly before T plus the cache duration; an     *)
(* identical poll at or after that time evicts the entry and goes on to   *)
(* the rate limiter and from there to the network; a successful fresh     *)
(* poll reports age 0 and replaces the cached entry.                      *)
C34_PollCacheLifetime ==
    [][/\ (/\ PollFindsEntry
           /\ SecondsSince(poll_cache[StartedKey].cached_at) < CacheSeconds)
          => /\ resp'.via = "cache_hit"
             /\ resp' = PollAnswer(resp'.op, "cache_hit", resp'.req,
                           poll_cache[StartedKey].data,
                           (now - poll_cache[StartedKey].cached_at)
                               * SecPerTick * 1000)
             /\ poll_cache' = poll_cache
       /\ (/\ PollFindsEntry
           /\ SecondsSince(poll_cache[StartedKey].cached_at) >= CacheSeconds)
          => /\ StartedKey \notin DOMAIN poll_cache'
             /\ resp'.via \in {"rate_limited", "issued"}
             /\ resp'.via = "issued" <=> Len(RecordedLive) < RateCeiling
             /\ resp'.via = "issued" => called' = {"asyncgate"}
       /\ resp'.via = "ok"
          => /\ resp'.age_ms = 0
             /\ \E p \in DOMAIN inflight :
                   /\ p.req = resp'.req
                   /\ p.key \in DOMAIN poll_cache'
                   /\ poll_cache'[p.key].cached_at = now
                   /\ resp' = PollAnswer(p.op, "ok", p.req,
                                         poll_cache'[p.key].data, 0)]_vars

(* a poll was answered from an entry cached earlier, with the entry's age, *)
(* one tick before the entry expires                                      *)
C34_Witness ==
    /\ resp.via = "cache_hit"
    /\ resp.op = "health"
    /\ HealthKey(resp.req) \in DOMAIN poll_cache
    /\ poll_cache[HealthKey(resp.req)].cached_at < now
    /\ resp.age_ms = (now - poll_cache[HealthKey(resp.req)].cached_at)
                        * SecPerTick * 1000
    /\ resp.age_ms + SecPerTick * 1000 = CacheSeconds * 1000

-----------------------------------------------------------------------------
(* The search of the projection cache *)

(* the headers cached for the lineage a search asks about *)
CachedFor(r) ==
    LET key == HeadersKey(r.tenant_id, r.root_task_id)
    IN  IF key \in DOMAIN receipt_headers THEN receipt_headers[key] ELSE <<>>

(* a header passes the filters of a search: the phase and the recipient   *)
(* when one is given, and a created_at at or after since                  *)
Matches(h, r) ==
    /\ r.phase # None => h.phase = r.phase
    /\ r.recipient_ai # None => h.recipient_ai = r.recipient_ai
    /\ r.since # <<>> => (h.created_at # <<>> /\ h.created_at[1] >= r.since[1])

(* how often a header occurs in a list *)
CountIn(seq, h) == Cardinality({i \in DOMAIN seq : seq[i] = h})

(* header a may stand before header b in descending created_at order, an  *)
(* absent created_at being the earliest                                   *)
NotEarlier(a, b) ==
    \/ b.created_at = <<>>
    \/ a.created_at # <<>> /\ a.created_at[1] >= b.created_at[1]

(* C35: for every cached header list and every phase, recipient, since    *)
(* and limit, the search returns exactly the cached headers that pass the *)
(* filters, in descending created_at order (absent created_at earliest),  *)
(* cut to the first limit entries: never more than limit entries, every   *)
(* matching header when they are at most limit, and otherwise none left   *)
(* out that is later than one returned.                                   *)
C35_SearchFiltersSortsCuts ==
    resp.op = "search_receipts" =>
        LET r == resp.req
            got == resp.body.receipts
            all == CachedFor(r)
            matching == {i \in DOMAIN all : Matches(all[i], r)}
        IN  /\ Len(got) <= r.limit
            /\ Len(got) = Min(r.limit, Cardinality(matching))
            /\ \A i \in DOMAIN got : Matches(got[i], r)
            /\ \A i \in DOMAIN got : CountIn(got, got[i]) <= CountIn(all, got[i])
            /\ \A i, j \in DOMAIN got : i < j => NotEarlier(got[i], got[j])
            /\ \A i \in matching :
                  CountIn(got, all[i]) < CountIn(all, all[i])
                     => \A j \in DOMAIN got : NotEarlier(got[j], all[i])

(* a search that filtered out a header, moved a later header in front of  *)
(* a header without created_at, and returned both                         *)
C35_Witness ==
    /\ resp.op = "search_receipts"
    /\ resp.req.phase = "complete"
    /\ Len(CachedFor(resp.req)) = MaxHeaders
    /\ Len(resp.body.receipts) = 1
    /\ resp.req.limit = 1
    /\ CachedFor(resp.req)[1].created_at = <<>>
    /\ CachedFor(resp.req)[1].phase = "complete"
    /\ resp.body.receipts[1] = CachedFor(resp.req)[2]
    /\ resp.body.receipts[1].created_at # <<>>

(* C36: when the component's URL is not configured, a health or queue     *)
(* poll that finds no fresh cached result ends as an unavailable source   *)
(* without touching the rate limiter: the limiter's timestamps are as     *)
(* they were, nothing is sent and nothing is left in flight.              *)
C36_UnconfiguredCostsNoSlot ==
    [][(IsPollStart /\ ~settings.asyncgate_url /\ ~FreshEntry(StartedKey))
        => /\ resp'.via = "unconfigured"
           /\ resp'.code # 429
           /\ rate_limiter' = rate_limiter
           /\ issued' = issued
           /\ inflight' = inflight
           /\ called' = {}]_vars

(* a queue poll has met the unconfigured endpoint, and the limiter has    *)
(* recorded nothing                                                       *)
C36_Witness ==
    /\ ~settings.asyncgate_url
    /\ resp.op = "queue"
    /\ resp.via = "unconfigured"
    /\ rate_limiter = EmptyDict
    /\ now > 0

(* C37: a poll rejected by the limiter records no timestamp: the limiter  *)
(* keeps only the timestamps of admitted polls that are still inside the  *)
(* window, so rejections never postpone the return of capacity. Whether a *)
(* poll that reaches the limiter is admitted depends on the admitted      *)
(* polls alone: it is admitted exactly when fewer than N of them lie      *)
(* inside the window, and so as soon as the oldest of N is 60 seconds old. *)
C37_RejectionRecordsNothing ==
    [][/\ resp'.via = "rate_limited"
          => /\ issued' = issued
             /\ rate_limiter'["asyncgate"] = RecordedLive
             /\ Len(rate_limiter'["asyncgate"]) <= Len(Recorded)
       /\ ReachesLimiter
          => (resp'.via = "issued" <=> Len(IssuedLive) < RateCeiling)
       /\ (/\ ReachesLimiter
           /\ Len(issued) >= RateCeiling
           /\ SecondsSince(issued[Len(issued) - RateCeiling + 1])
                 >= WindowSeconds)
          => resp'.via = "issued"]_vars

(* a poll has been rejected one tick before capacity returns, and the     *)
(* limiter holds the admitted polls only                                  *)
C37_Witness ==
    /\ resp.via = "rate_limited"
    /\ Len(Recorded) = RateCeiling
    /\ Recorded = IssuedLive
    /\ SecondsSince(Recorded[1]) = WindowSeconds - SecPerTick
    /\ \A i \in DOMAIN Recorded : Recorded[i] < now

-----------------------------------------------------------------------------
(* What the operations write to the projection cache *)

(* C38: no public operation writes the status entries or the header lists *)
(* of the projection cache; the receipt cache is written only by a        *)
(* get-receipt that fetched the receipt from the mirror. Starting from    *)
(* the empty cache, both stay empty, every answered status request        *)
(* reports state unknown with source projection_cache at age 0, and every *)
(* search answered from the projection cache has no headers.              *)
C38_StatusAndHeadersNeverWritten ==
    /\ [](/\ status_cache = EmptyDict
          /\ receipt_headers = EmptyDict
          /\ (resp.op = "status" /\ resp.code = 200)
                => /\ resp.body.state = "unknown"
                   /\ resp.source = "projection_cache"
                   /\ resp.age_ms = 0
          /\ (resp.op = "search" /\ resp.code = 200
                 /\ resp.source = "projection_cache")
                => resp.body.items = <<>>)
    /\ [][receipt_cache' # receipt_cache
             => /\ resp'.op = "get"
                /\ resp'.source = "ledger_mirror"
                /\ resp'.body.found
                /\ receipt_cache' =
                      Put(receipt_cache,
                          resp'.body.receipt.tenant_id \o ":"
                              \o resp'.body.receipt.receipt_id,
                          [receipt |-> resp'.body.receipt,
                           cached_at |-> now])]_vars

(* a status request was answered unknown while the receipt cache, written *)
(* by an earlier get-receipt, holds a receipt                             *)
C38_Witness ==
    /\ resp.op = "status"
    /\ resp.code = 200
    /\ resp.body.state = "unknown"
    /\ receipt_cache # EmptyDict
    /\ status_cache = EmptyDict

-----------------------------------------------------------------------------
(* Concurrent polls with one cache key *)

(* a poll with the key of the starting poll is awaiting the component *)
SameKeyInFlight == \E p \in DOMAIN inflight : p.key = StartedKey

(* the cache and the limiter hold what their types say: results cached at *)
(* a time not after the clock, admitted times in the order they were      *)
(* recorded, and no poll in flight that was not recorded when sent        *)
WellFormed ==
    /\ \A k \in DOMAIN poll_cache :
          /\ poll_cache[k].cached_at \in 0..now
          /\ poll_cache[k].data \in DataVals \cup QueueDataVals
    /\ DOMAIN rate_limiter \subseteq {"asyncgate"}
    /\ \A i \in DOMAIN Recorded : Recorded[i] \in 0..now
    /\ \A i, j \in DOMAIN Recorded : i < j => Recorded[i] <= Recorded[j]
    /\ \A p \in DOMAIN inflight : inflight[p] >= 1
    /\ BagSize(inflight) <= Len(issued)

(* C39: two polls with the same cache key that both start while no fresh  *)
(* result is cached are not coalesced: the second takes its own slot of   *)
(* the limiter and sends its own request while the first is in flight;    *)
(* each poll that completes writes its result over whatever is cached     *)
(* under the key, so the cache ends with the result of the poll that      *)
(* completed last; the cache and the limiter stay well-formed throughout. *)
C39_SameKeyPollsNotCoalesced ==
    /\ []WellFormed
    /\ [][/\ (/\ ReachesLimiter
              /\ SameKeyInFlight
              /\ Len(RecordedLive) < RateCeiling)
             => /\ resp'.via = "issued"
                /\ called' = {"asyncgate"}
                /\ Len(issued') = Len(issued) + 1
                /\ BagSize(inflight') = BagSize(inflight) + 1
                /\ rate_limiter'["asyncgate"] = Append(RecordedLive, now)
          /\ resp'.via = "ok"
             => \E p \in DOMAIN inflight :
                   /\ p.req = resp'.req
                   /\ BagSize(inflight') = BagSize(inflight) - 1
                   /\ poll_cache'[p.key].cached_at = now
                   /\ resp' = PollAnswer(p.op, "ok", p.req,
                                         poll_cache'[p.key].data, 0)
                   /\ rate_limiter' = rate_limiter]_vars

(* two health polls with one key were sent at the same time, each with    *)
(* its own slot; one has completed and cached its result, the other is    *)
(* still awaiting the component and will write over it                    *)
C39_Witness ==
    /\ resp.op = "health"
    /\ resp.via = "ok"
    /\ Len(issued) = 2
    /\ issued[1] = issued[2]
    /\ Recorded = issued
    /\ BagSize(inflight) = 1
    /\ \E p \in DOMAIN inflight : p.key = HealthKey(resp.req)
    /\ HealthKey(resp.req) \in DOMAIN poll_cache
    /\ poll_cache[HealthKey(resp.req)].data = resp.body.data

-----------------------------------------------------------------------------
(* Receipts across tenants *)

(* C40: a get-receipt request of tenant T for receipt R that is answered  *)
(* from the projection cache returns a receipt that was cached with       *)
(* tenant_id T and receipt_id R: no tenant receives from the cache a      *)
(* receipt stored under another tenant or another receipt id.             *)
C40_CachedReceiptOfSameTenant ==
    (resp.op = "get" /\ resp.source = "projection_cache" /\ resp.body.found)
        => /\ resp.body.receipt.tenant_id = resp.req.tenant_id
           /\ resp.body.receipt.receipt_id = resp.req.receipt_id

====
